---- MODULE Spec2Model ----
(***************************************************************************)
(* Vessel-telemetry ingestion and CII computation of the data service:     *)
(* the upload endpoint, the background job process_upload with its         *)
(* job-record store (SQLite) and analytical store (DuckDB), and the        *)
(* cleaning pipeline the job runs.                                         *)
(*                                                                         *)
(* Numbers are integers.  A quantity the code holds as a float is held in  *)
(* a unit fine enough that the inputs drawn here divide exactly (a daily   *)
(* mean, a cii_temp term, a running mean); slip_ratio and ship_nmile are   *)
(* rounded down to the unit.                                               *)
(***************************************************************************)
EXTENDS Integers, Sequences, FiniteSets, Bags, TLC

(***************************************************************************)
(* Cell values.  A data-frame cell or a table field is a number, or one of *)
(* three marks: NaN (pandas NaN / SQL NULL), STR (text that does not parse *)
(* as a number) and STRNL (such text with an embedded line break).         *)
(***************************************************************************)
NaN == -999999
STR == -999998
STRNL == -999997

\* pd.NaT: what min() and max() of a date column without a valid date give
NaT == -999996

IsNum(v) == v \notin {NaN, STR, STRNL}
IsText(v) == v \in {STR, STRNL}

\* pd.to_numeric(col, errors="coerce"): text that does not parse becomes NaN
to_numeric(v) == IF IsText(v) THEN NaN ELSE v

\* Series.fillna(0)
fillna0(v) == IF v = NaN THEN 0 ELSE v

(***************************************************************************)
(* Emission factors, in thousandths (CF * 1000).                           *)
(***************************************************************************)
HfoCols == {"me_hfo_act_cons", "blr_hfo_act_cons", "dg_hfo_act_cons"}
MgoCols == {"me_mgo_act_cons", "blr_mgo_act_cons", "dg_mgo_act_cons"}

_CONS_COLS == <<"me_hfo_act_cons", "me_mgo_act_cons", "blr_hfo_act_cons",
                "blr_mgo_act_cons", "dg_hfo_act_cons", "dg_mgo_act_cons">>

get_cf(col) ==
    IF col \in HfoCols THEN 3114
    ELSE IF col \in MgoCols THEN 3206
    ELSE 0

(***************************************************************************)
(* Data frames.  A frame is [cols, obj, rows]: the column names, the       *)
(* columns pandas holds with dtype object (a column of the file that has   *)
(* text in some row), and the rows, each a function from cols to cells.    *)
(* The date column holds the calendar date as year * 100 + day of year.    *)
(***************************************************************************)
Year(d) == d \div 100

SetCol(df, col, F(_)) ==
    [cols |-> df.cols \cup {col},
     obj  |-> df.obj \ {col},
     rows |-> [i \in 1..Len(df.rows) |->
                 [c \in df.cols \cup {col} |->
                     IF c = col THEN F(df.rows[i]) ELSE df.rows[i][c]]]]

Filter(df, Keep(_)) == [df EXCEPT !.rows = SelectSeq(df.rows, Keep)]

\* df[col] = 0.0 when the column is absent
EnsureCol(df, col) ==
    IF col \in df.cols THEN df ELSE SetCol(df, col, LAMBDA r : 0)

\* df[col] = pd.to_numeric(df[col], errors="coerce")
Coerce(df, col) == SetCol(df, col, LAMBDA r : to_numeric(r[col]))

RECURSIVE CoerceAll(_, _)
CoerceAll(df, cols) ==
    IF cols = {} THEN df
    ELSE LET c == CHOOSE x \in cols : TRUE
         IN  CoerceAll(Coerce(EnsureCol(df, c), c), cols \ {c})

draft_calculation(df) ==
    LET d1 == CoerceAll(df, {"draught_astern", "draught_bow"})
    IN  SetCol(d1, "draft",
               LAMBDA r : (fillna0(r["draught_astern"]) + fillna0(r["draught_bow"])) \div 2)

\* speed_water / (me_rpm * pitch * 60) * 1852 * 100, pitch in thousandths, rounded down.
\* Beyond 200 knots the product leaves the model's integers and the quotient is
\* rounded in two steps (such a value is far outside the window -20..100 either way).
SlipLoss(speed, rpm, pitch) ==
    IF speed >= -200 /\ speed <= 200
    THEN (speed * 9260000) \div (3 * rpm * pitch)
    ELSE (speed \div 3) * (9260000 \div (rpm * pitch))

\* slip_ratio in percent
slip_ratio_calculation(df, pitch) ==
    LET d0 == EnsureCol(EnsureCol(df, "me_rpm"), "speed_water")
        d1 == Coerce(Coerce(d0, "me_rpm"), "speed_water")
        valid(r) == /\ r["me_rpm"] # 0 /\ r["speed_water"] # 0
                    /\ r["me_rpm"] # NaN /\ r["speed_water"] # NaN
    IN  SetCol(d1, "slip_ratio",
               LAMBDA r : IF valid(r)
                          THEN 100 - SlipLoss(r["speed_water"], r["me_rpm"], pitch)
                          ELSE 0)

ship_nmile_calculation(df) ==
    LET hfo == {"me_hfo_act_cons", "dg_hfo_act_cons", "blr_hfo_act_cons"}
        d1 == CoerceAll(df, hfo \cup {"speed_water"})
        valid(r) == r["speed_water"] # 0 /\ r["speed_water"] # NaN
    IN  SetCol(d1, "ship_nmile",
               LAMBDA r : IF valid(r)
                          THEN (fillna0(r["me_hfo_act_cons"]) + fillna0(r["dg_hfo_act_cons"])
                                + fillna0(r["blr_hfo_act_cons"])) \div r["speed_water"]
                          ELSE 0)

\* df.dropna(): a row with NaN in any column is removed
data_nulls(df) == Filter(df, LAMBDA r : \A c \in df.cols : r[c] # NaN)

(***************************************************************************)
(* Comparisons of a float column with a constant: NaN compares False,      *)
(* except under != .                                                       *)
(***************************************************************************)
Gt(v, k) == IsNum(v) /\ v > k
Ge(v, k) == IsNum(v) /\ v >= k
Lt(v, k) == IsNum(v) /\ v < k
Le(v, k) == IsNum(v) /\ v <= k

\* every cell of an object column is text, so != against a number is True
Ne(df, col, v, k) == col \in df.obj \/ v # k

_filter_col(df, col, cond(_)) ==
    IF col \in df.cols THEN Filter(df, LAMBDA r : cond(r[col])) ELSE df

\* an ordering comparison of an object column with a number raises TypeError
OrderingRaises(df, col) == col \in df.cols /\ col \in df.obj /\ Len(df.rows) > 0

data_abnormal_removal(df) ==
    LET f1 == _filter_col(df, "me_fuel_consumption_nmile", LAMBDA c : Gt(c, 0) /\ Lt(c, 250))
        f2 == _filter_col(f1, "me_shaft_power", LAMBDA c : Gt(c, 0) /\ Lt(c, 8000))
        f3 == _filter_col(f2, "me_rpm", LAMBDA c : Lt(c, 2000) /\ c # 0)
        f4 == _filter_col(f3, "draft", LAMBDA c : Gt(c, 0))
        f5 == _filter_col(f4, "speed_ground", LAMBDA c : c # 88888 /\ Ge(c, 3))
        f6 == _filter_col(f5, "speed_water", LAMBDA c : c # 88888)
        f7 == _filter_col(f6, "slip_ratio", LAMBDA c : c # 88888)
        f8 == _filter_col(f7, "wind_direction", LAMBDA c : Ne(f7, "wind_direction", c, 88888))
        f9 == _filter_col(f8, "wind_speed", LAMBDA c : Lt(c, 60))
        f10 == _filter_col(f9, "me_fuel_consumption_kwh", LAMBDA c : Ge(c, 0))
        out == Filter(f10, LAMBDA r : \A c \in f10.cols : r[c] # STRNL)
    IN  [raised |-> OrderingRaises(f4, "speed_ground"), df |-> out]

data_filtering(df) ==
    LET g1 == Filter(df, LAMBDA r : Ge(r["me_rpm"], 35))
        g2 == Filter(g1, LAMBDA r : Ge(r["speed_water"], 3))
    IN  Filter(g2, LAMBDA r : Le(r["slip_ratio"], 100) /\ Ge(r["slip_ratio"], -20))

_NUMERIC_COLS ==
    {"speed_water", "me_rpm", "me_hfo_act_cons", "dg_hfo_act_cons", "blr_hfo_act_cons",
     "draught_astern", "draught_bow", "wind_speed", "me_fuel_consumption_nmile",
     "me_fuel_consumption_kwh", "me_shaft_power"}

RECURSIVE CoercePresent(_, _)
CoercePresent(df, cols) ==
    IF cols = {} THEN df
    ELSE LET c == CHOOSE x \in cols : TRUE
         IN  CoercePresent(IF c \in df.cols THEN Coerce(df, c) ELSE df, cols \ {c})

\* the result is [raised, df]: raised when a step of the pipeline raises
data_preparation(df, pitch) ==
    LET d1 == data_nulls(df)
        d2 == CoercePresent(d1, _NUMERIC_COLS)
        d3 == ship_nmile_calculation(slip_ratio_calculation(draft_calculation(d2), pitch))
        d4 == data_abnormal_removal(d3)
    IN  IF d4.raised THEN [raised |-> TRUE, df |-> d3]
        ELSE IF Len(d4.df.rows) = 0 THEN [raised |-> FALSE, df |-> d4.df]
        ELSE [raised |-> FALSE, df |-> data_filtering(d4.df)]

(***************************************************************************)
(* Bounds and input sets.                                                  *)
(***************************************************************************)
MaxUploads == 2      \* accepted upload requests
MaxFaults == 1       \* store operations that fail for reasons outside the program
MaxClock == 1        \* seconds the wall clock advances between requests

Vessels == {1, 2}
UploadIds == 1..MaxUploads

\* vessel_capacity of a request: None (NaN), zero, negative, or positive
Capacities == {NaN, 0, -1, 1, 2}

\* pitch of a request, in thousandths (the default is 6.058)
Pitches == {6058}

\* file names, as character sequences; <<>> is a request without a file name
FileNames == {<<"a", ".", "c", "s", "v">>, <<"A", ".", "C", "S", "V">>,
              <<"d", ".", "x", "l", "s", "x">>, <<"c", "s", "v">>, <<>>}

(***************************************************************************)
(* Uploaded contents.  A content is named; read_csv maps it to its frame.  *)
(* Every telemetry row below passes the cleaning pipeline unless said.     *)
(***************************************************************************)
BaseCols == {"date", "speed_water", "me_rpm", "draught_astern", "draught_bow",
             "me_hfo_act_cons", "me_mgo_act_cons", "blr_hfo_act_cons",
             "blr_mgo_act_cons", "dg_hfo_act_cons", "dg_mgo_act_cons"}

Row(date, speed, rpm, hfo, mgo) ==
    [c \in BaseCols |->
        CASE c = "date" -> date
          [] c = "speed_water" -> speed
          [] c = "me_rpm" -> rpm
          [] c = "draught_astern" -> 8
          [] c = "draught_bow" -> 6
          [] c = "me_hfo_act_cons" -> hfo
          [] c = "me_mgo_act_cons" -> mgo
          [] OTHER -> 0]

Frame(rows) == [cols |-> BaseCols, obj |-> {}, rows |-> rows]

\* a frame of a file without the MGO consumption columns
FrameWithoutMgo(rows) ==
    [cols |-> BaseCols \ MgoCols, obj |-> {},
     rows |-> [i \in 1..Len(rows) |-> [c \in BaseCols \ MgoCols |-> rows[i][c]]]]

Contents == {"", "A", "B", "C", "Z", "H", "M", "N", "G"}

\* pd.read_csv(file_path): [raised, df]
read_csv(content) ==
    CASE content = "A" ->
           [raised |-> FALSE,
            df |-> Frame(<<Row(101, 12, 80, 72, 0), Row(102, 6, 80, 144, 72),
                           Row(201, 12, 80, 0, 144)>>)]
      [] content = "B" ->
           [raised |-> FALSE,
            df |-> Frame(<<Row(101, 6, 80, 144, 0), Row(101, 6, 80, 288, 0),
                           Row(102, 12, 10, 72, 0)>>)]
      [] content = "C" ->
           [raised |-> FALSE,
            df |-> Frame(<<Row(102, 12, 80, 144, 0)>>)]
      [] content = "Z" ->     \* every row fails me_rpm >= 35
           [raised |-> FALSE,
            df |-> Frame(<<Row(101, 12, 10, 72, 0), Row(102, 12, 20, 72, 0)>>)]
      [] content = "M" ->     \* no MGO consumption columns
           [raised |-> FALSE,
            df |-> FrameWithoutMgo(<<Row(101, 12, 80, 72, 0), Row(102, 12, 80, 144, 0)>>)]
      [] content = "N" ->     \* a negative fuel consumption
           [raised |-> FALSE,
            df |-> Frame(<<Row(101, 12, 80, -72, 0), Row(102, 12, 80, 72, 0)>>)]
      [] content = "H" ->     \* a header line and no data row
           [raised |-> FALSE, df |-> Frame(<<>>)]
      [] OTHER ->             \* not a delimited table: the parser raises
           [raised |-> TRUE, df |-> Frame(<<>>)]

\* what the clients of a run upload: contents and capacities; a serial client uploads
\* its next file once the job of the one before has returned
SerialWorkload ==
    [serial |-> TRUE, contents |-> {"", "A", "C", "Z", "H"}, capacities |-> Capacities]
SparseWorkload ==
    [serial |-> TRUE, contents |-> {"", "M", "N"}, capacities |-> {NaN, 1}]
ConcurrentWorkload ==
    [serial |-> FALSE, contents |-> {"", "A", "B", "H", "G"}, capacities |-> {NaN, 2}]

(***************************************************************************)
(* Analytical store (DuckDB).  The telemetry tables are append-only bags   *)
(* of rows (id and created_at are left out); the per-day table is a set of *)
(* rows.  Of the tables' columns, the model keeps the key, the columns the *)
(* CII statements read, and the two CII columns.                           *)
(***************************************************************************)
ConsCols == HfoCols \cup MgoCols
SensorCols == {"speed_water"} \cup ConsCols
TelemetryCols == {"vessel_id", "date"} \cup SensorCols
PerDayCols == TelemetryCols \cup {"cii_temp", "cii"}

\* the value INSERT ... BY NAME stores for a table column: NULL when the frame lacks it
Cell(df, r, c) == IF c \in df.cols THEN r[c] ELSE NaN

\* the statement fails as a whole on text in a DOUBLE column or a NULL date
InsertRaises(df) ==
    \E i \in 1..Len(df.rows) :
        \/ \E c \in SensorCols \cap df.cols : IsText(df.rows[i][c])
        \/ ~IsNum(Cell(df, df.rows[i], "date"))

TelemetryRow(vessel_id, df, r) ==
    [c \in TelemetryCols |-> IF c = "vessel_id" THEN vessel_id ELSE Cell(df, r, c)]

RECURSIVE TelemetryRows(_, _, _)
TelemetryRows(vessel_id, df, n) ==
    IF n = 0 THEN EmptyBag
    ELSE TelemetryRows(vessel_id, df, n - 1)
            (+) SetToBag({TelemetryRow(vessel_id, df, df.rows[n])})

\* _insert_telemetry: the table after the statement
_insert_telemetry(table, vessel_id, df) ==
    table (+) TelemetryRows(vessel_id, df, Len(df.rows))

RECURSIVE SumSeq(_)
SumSeq(s) == IF s = <<>> THEN 0 ELSE Head(s) + SumSeq(Tail(s))

\* Series.mean() / SQL AVG: NaN is skipped; NaN when nothing is left
Mean(vals) ==
    LET nums == SelectSeq(vals, LAMBDA v : v # NaN)
    IN  IF nums = <<>> THEN NaN ELSE SumSeq(nums) \div Len(nums)

\* df.groupby("date").mean(numeric_only=True), with vessel_id attached
DailyDates(df) == {df.rows[i]["date"] : i \in 1..Len(df.rows)}

DailyRow(vessel_id, df, d) ==
    LET grp == SelectSeq(df.rows, LAMBDA r : r["date"] = d)
    IN  [c \in PerDayCols |->
            CASE c = "vessel_id" -> vessel_id
              [] c = "date" -> d
              [] c \in {"cii_temp", "cii"} -> 0       \* column DEFAULT 0.0
              [] OTHER -> IF c \in df.cols \ df.obj
                          THEN Mean([i \in 1..Len(grp) |-> grp[i][c]])
                          ELSE NaN]

Daily(vessel_id, df) == {DailyRow(vessel_id, df, d) : d \in DailyDates(df)}

\* the delete without its date condition
UpsertDeleteAllDates(table, vessel_id, df) ==
    {r \in table : r["vessel_id"] # vessel_id}

\* the delete without its vessel condition
UpsertDeleteAnyVessel(table, vessel_id, df) ==
    {r \in table : r["date"] \notin DailyDates(df)}

\* an upsert that deletes nothing
UpsertDeleteNothing(table, vessel_id, df) == table

\* DELETE FROM vessel_data_per_day WHERE vessel_id = $1 AND date IN (...)
UpsertDelete(table, vessel_id, df) ==
    {r \in table : ~(r["vessel_id"] = vessel_id /\ r["date"] \in DailyDates(df))}

\* a table without the key constraint
KeyConflictUnchecked(table, rows) == FALSE

\* PRIMARY KEY (vessel_id, date): the insert fails as a whole on a key in the table
KeyConflict(table, rows) ==
    \E r \in table, n \in rows :
        r["vessel_id"] = n["vessel_id"] /\ r["date"] = n["date"]

\* INSERT INTO vessel_data_per_day BY NAME SELECT * FROM _daily_df
UpsertInsert(table, vessel_id, df) == table \cup Daily(vessel_id, df)

\* one term of the cii_temp formula: CASE WHEN speed_water > 0 THEN (col / speed_water) * factor
\* ELSE 0 END, factor = CF * 1000 / c; a NULL operand gives NULL
CiiTerm(r, col, c) ==
    IF Gt(r["speed_water"], 0)
    THEN IF r[col] = NaN THEN NaN ELSE (r[col] * get_cf(col)) \div (r["speed_water"] * c)
    ELSE 0

RECURSIVE SqlSum(_)
SqlSum(s) ==
    IF s = <<>> THEN 0
    ELSE IF Head(s) = NaN \/ SqlSum(Tail(s)) = NaN THEN NaN
    ELSE Head(s) + SqlSum(Tail(s))

Parts == SelectSeq(_CONS_COLS, LAMBDA col : get_cf(col) > 0)

CiiFormula(r, c) == SqlSum([i \in 1..Len(Parts) |-> CiiTerm(r, Parts[i], c)])

\* the update without its cii_temp = 0 condition
_calculate_cii_temp_all(table, vessel_id, c) ==
    {IF r["vessel_id"] = vessel_id
     THEN [r EXCEPT !["cii_temp"] = CiiFormula(r, c)]
     ELSE r : r \in table}

\* UPDATE vessel_data_per_day SET cii_temp = <formula> WHERE vessel_id = v AND cii_temp = 0
_calculate_cii_temp(table, vessel_id, c) ==
    IF Parts = <<>> THEN table
    ELSE {IF r["vessel_id"] = vessel_id /\ r["cii_temp"] = 0
          THEN [r EXCEPT !["cii_temp"] = CiiFormula(r, c)]
          ELSE r : r \in table}

\* AVG(cii_temp) OVER (PARTITION BY vessel_id, YEAR(date) ORDER BY date
\*                     ROWS BETWEEN UNBOUNDED PRECEDING AND CURRENT ROW)
RECURSIVE SortedDates(_)
SortedDates(ds) ==
    IF ds = {} THEN <<>>
    ELSE LET m == CHOOSE x \in ds : \A y \in ds : x <= y
         IN  <<m>> \o SortedDates(ds \ {m})

\* the window partitioned by vessel alone
WindowAvgAcrossYears(table, r) ==
    LET part == {q \in table : q["vessel_id"] = r["vessel_id"]}
        upto == SortedDates({q["date"] : q \in {x \in part : x["date"] <= r["date"]}})
        temp(d) == (CHOOSE q \in part : q["date"] = d)["cii_temp"]
    IN  Mean([i \in 1..Len(upto) |-> temp(upto[i])])

WindowAvg(table, r) ==
    LET part == {q \in table : q["vessel_id"] = r["vessel_id"]
                               /\ Year(q["date"]) = Year(r["date"])}
        upto == SortedDates({q["date"] : q \in {x \in part : x["date"] <= r["date"]}})
        temp(d) == (CHOOSE q \in part : q["date"] = d)["cii_temp"]
    IN  Mean([i \in 1..Len(upto) |-> temp(upto[i])])

\* UPDATE vessel_data_per_day AS d SET cii = sub.cii FROM (...) WHERE vessel_id = $1
_calculate_cii(table, vessel_id) ==
    {IF r["vessel_id"] = vessel_id
     THEN [r EXCEPT !["cii"] = WindowAvg(table, r)]
     ELSE r : r \in table}

\* the condition without its sign test
CapacityTruthy(c) == c # NaN /\ c # 0

\* if vessel_capacity and vessel_capacity > 0
CapacityGiven(c) == c # NaN /\ c # 0 /\ c > 0

(***************************************************************************)
(* The upload endpoint's checks.                                           *)
(***************************************************************************)
max_file_size == 104857600

\* len(content), in bytes
Size(content) == IF content = "" THEN 0 ELSE 1024

Lower(ch) == CASE ch = "C" -> "c" [] ch = "S" -> "s" [] ch = "V" -> "v"
               [] ch = "A" -> "a" [] OTHER -> ch

\* (file.filename or "").lower().endswith(".csv")
EndsWithCsv(name) ==
    LET n == Len(name)
        low == [i \in 1..n |-> Lower(name[i])]
    IN  n >= 4 /\ SubSeq(low, n - 3, n) = <<".", "c", "s", "v">>

\* the endpoint without its empty-content check
UploadStatusCodeNoEmptyCheck(name, content) ==
    IF Size(content) > max_file_size THEN 413
    ELSE IF ~EndsWithCsv(name) THEN 400
    ELSE 202

\* the status code the endpoint answers with
UploadStatusCode(name, content) ==
    IF Size(content) > max_file_size THEN 413
    ELSE IF content = "" THEN 400
    ELSE IF ~EndsWithCsv(name) THEN 400
    ELSE 202

\* save_upload_file: f"{upload_dir}/{today}/{vessel_name}-{ts}.csv", ts to the second
SavePath(vessel_id, clock) == <<vessel_id, clock>>

(***************************************************************************)
(* State.                                                                  *)
(***************************************************************************)
VARIABLES
    now,        \* wall clock, in seconds
    files,      \* upload directory: saved path -> content
    response,   \* status code of the last upload request
    uploads,    \* vessel_data_upload: the records, a record's id being its position
    committed,  \* ids whose insert the request's session has committed
    client,     \* what the clients of this run upload, and when
    input,      \* the arguments of a call of a pure function under study
    output,     \* what the calls made on input have returned so far
    _ship_type_cache,   \* analytics: the ship-type map kept in the process, None at first
    users,      \* identity: the user table, a user's id being its position
    vessels,    \* vessel: the vessel table with each vessel's equipment and curves
    faults,     \* store operations that have failed for outside reasons so far
    pc,         \* per upload id: where its process_upload call stands
    task,       \* per upload id: the arguments handed to process_upload
    dfs,        \* per upload id: the content process_upload read
    exc,        \* per upload id: the step whose exception reached the handler
    session,    \* per upload id: whether the job's session can be used ("active") or
                \* a flush failed in it and it awaits a rollback ("inactive")
    raw,        \* vessel_original_data
    std,        \* vessel_standard_data
    perDay      \* vessel_data_per_day

vars == <<now, files, response, uploads, committed, client, input, output, _ship_type_cache,
          users, vessels, faults, pc, task, dfs, exc, session, raw, std, perDay>>

jobVars == <<pc, task, dfs, exc, session>>
duckVars == <<raw, std, perDay>>
webVars == <<now, files, response>>
otherVars == <<_ship_type_cache, users, vessels>>
envVars == <<client, input, output, otherVars>>

\* VesselDataUpload(vessel_id=..., file_path=...): status defaults to pending
VesselDataUpload(vessel_id, file_path) ==
    [vessel_id |-> vessel_id, file_path |-> file_path, status |-> "pending",
     date_start |-> NaN, date_end |-> NaN, error_message |-> NaN, completed_at |-> NaN]

NoTask == [vessel_id |-> 0, file_path |-> <<>>, pitch |-> 0, vessel_capacity |-> NaN]

InitStores ==
    /\ _ship_type_cache = [cached |-> FALSE, map |-> <<>>]
    /\ users = <<>>
    /\ vessels = <<>>
    /\ now = 0
    /\ files = <<>>
    /\ response = 0
    /\ uploads = <<>>
    /\ committed = {}
    /\ faults = 0
    /\ pc = [j \in UploadIds |-> "idle"]
    /\ task = [j \in UploadIds |-> NoTask]
    /\ dfs = [j \in UploadIds |-> ""]
    /\ exc = [j \in UploadIds |-> "none"]
    /\ session = [j \in UploadIds |-> "active"]
    /\ raw = EmptyBag
    /\ std = EmptyBag
    /\ perDay = {}

\* the service, with no pure function under separate study
InitCommon == InitStores /\ input = "none" /\ output = "none"

\* clients upload at any time: the jobs of their uploads overlap
Init == InitCommon /\ client = ConcurrentWorkload

\* one upload at a time (the single-writer assumption)
InitSerial == InitCommon /\ client = SerialWorkload

\* one upload at a time, of files with missing columns or negative consumption
InitSparse == InitCommon /\ client = SparseWorkload

\* the steps at which a job holds the DuckDB connection
DuckPcs == {"raw", "std", "delete", "insert", "cii_temp", "cii"}
Active == {"queued", "read", "finish", "except"} \cup DuckPcs

\* the persisted status of upload id, "absent" while no committed record exists
Persisted(id) == IF id \in committed THEN uploads[id].status ELSE "absent"

\* read_csv and data_preparation over the contents, tabulated
Parsed == [content \in Contents |-> read_csv(content)]
Cleaned == [content \in Contents, pitch \in Pitches |->
              data_preparation(Parsed[content].df, pitch)]

\* the frame the job read, and what cleaning makes of it
JobDf(j) == Parsed[dfs[j]].df
JobClean(j) == Cleaned[dfs[j], task[j].pitch]

(***************************************************************************)
(* POST /upload/vessel/{vessel_id}/standard                                *)
(***************************************************************************)
upload_standard_csv(vessel_id, name, content, pitch, vessel_capacity, clock) ==
    LET code == UploadStatusCode(name, content)
        id == Len(uploads) + 1
        path == SavePath(vessel_id, clock)
    IN  /\ id \in UploadIds
        /\ now' = clock
        /\ response' = code
        /\ IF code = 202
           THEN /\ files' = [p \in DOMAIN files \cup {path} |->
                                IF p = path THEN content ELSE files[p]]
                /\ uploads' = Append(uploads, VesselDataUpload(vessel_id, path))
                /\ pc' = [pc EXCEPT ![id] = "queued"]
                /\ task' = [task EXCEPT ![id] =
                              [vessel_id |-> vessel_id, file_path |-> path,
                               pitch |-> pitch, vessel_capacity |-> vessel_capacity]]
           ELSE UNCHANGED <<files, uploads, pc, task>>
        /\ UNCHANGED <<committed, envVars, faults, dfs, exc, session, duckVars>>

\* a request arrives, in the second of the request before it or later
UploadRequest ==
    /\ client.serial => \A j \in UploadIds : pc[j] \notin Active
    /\ \E vessel_id \in Vessels, name \in FileNames, content \in client.contents,
          pitch \in Pitches, vessel_capacity \in client.capacities,
          clock \in {t \in {now, now + 1} : t <= MaxClock} :
          upload_standard_csv(vessel_id, name, content, pitch, vessel_capacity, clock)

\* get_db: the request's session commits once the endpoint has returned
RequestCommit ==
    \E id \in DOMAIN uploads :
        /\ id \notin committed
        /\ committed' = committed \cup {id}
        /\ UNCHANGED <<webVars, uploads, envVars, faults, jobVars, duckVars>>

(***************************************************************************)
(* process_upload, one action per step.  A step on the job-record store    *)
(* (look-up, update, commit) either takes effect or raises; so does a      *)
(* statement on the analytical store.                                      *)
(***************************************************************************)
\* an operation fails for an outside reason (I/O error, lock, lost connection)
Fault == faults < MaxFaults /\ faults' = faults + 1

Goto(j, where) == pc' = [pc EXCEPT ![j] = where]
Raise(j, step) == /\ pc' = [pc EXCEPT ![j] = "except"]
                  /\ exc' = [exc EXCEPT ![j] = step]

\* repo.update(upload, fields); session.commit()
Update(id, fields) ==
    [uploads EXCEPT ![id] = [k \in DOMAIN uploads[id] |->
        IF k \in DOMAIN fields THEN fields[k] ELSE uploads[id][k]]]

\* a pickup that writes no new status
ProcessingFieldsUnset == [status |-> "pending"]

\* line 74: the fields the pickup writes
ProcessingFields == [status |-> "processing"]

\* the session after an operation on it raised: a flush that fails leaves the
\* session's transaction inactive until session.rollback(); a look-up or a commit that
\* fails leaves the session usable
Failed(j, how) == session' = [session EXCEPT ![j] = how]

\* a pickup that leaves the status as it is
PickupKeepsStatus(j) ==
    /\ pc[j] = "queued"
    /\ j \in committed
    /\ Goto(j, "read")
    /\ UNCHANGED <<webVars, uploads, committed, envVars, faults, task, dfs, exc, session,
                   duckVars>>

\* lines 70-75: look the record up, set status = processing, commit
Pickup(j) ==
    /\ pc[j] = "queued"
    /\ \/ /\ j \in committed
          /\ uploads' = Update(j, ProcessingFields)
          /\ Goto(j, "read")
          /\ UNCHANGED <<exc, faults, session>>
       \/ /\ j \notin committed           \* get_or_raise: EntityNotFoundError
          /\ Raise(j, "pickup")
          /\ UNCHANGED <<uploads, faults, session>>
       \/ /\ j \in committed /\ Fault      \* the look-up, the update or the commit raises
          /\ Raise(j, "pickup")
          /\ \E how \in {"active", "inactive"} : Failed(j, how)
          /\ UNCHANGED uploads
    /\ UNCHANGED <<webVars, committed, envVars, task, dfs, duckVars>>

\* line 77: df = pd.read_csv(file_path)
ReadFile(j) ==
    /\ pc[j] = "read"
    /\ LET content == files[task[j].file_path]
       IN  IF Parsed[content].raised
           THEN Raise(j, "read") /\ UNCHANGED dfs
           ELSE /\ dfs' = [dfs EXCEPT ![j] = content]
                /\ Goto(j, "raw")
                /\ UNCHANGED exc
    /\ UNCHANGED <<webVars, uploads, committed, envVars, faults, task, session, duckVars>>

\* where the job goes once the frame is cleaned (lines 86-88)
AfterClean(j) ==
    IF JobClean(j).raised THEN "except"
    ELSE IF Len(JobClean(j).df.rows) = 0 THEN "finish"
    ELSE "std"

\* lines 80-87: open the connection, insert the raw rows, clean the frame
InsertRaw(j) ==
    /\ pc[j] = "raw"
    /\ IF InsertRaises(JobDf(j))
       THEN Raise(j, "raw") /\ UNCHANGED raw
       ELSE /\ raw' = _insert_telemetry(raw, task[j].vessel_id, JobDf(j))
            /\ Goto(j, AfterClean(j))
            /\ exc' = [exc EXCEPT ![j] = IF JobClean(j).raised THEN "clean" ELSE @]
    /\ UNCHANGED <<webVars, uploads, committed, envVars, faults, task, session, dfs, std, perDay>>

\* lines 89-91: insert the cleaned rows
InsertStd(j) ==
    /\ pc[j] = "std"
    /\ IF InsertRaises(JobClean(j).df)
       THEN Raise(j, "std") /\ UNCHANGED std
       ELSE /\ std' = _insert_telemetry(std, task[j].vessel_id, JobClean(j).df)
            /\ Goto(j, "delete")
            /\ UNCHANGED exc
    /\ UNCHANGED <<webVars, uploads, committed, envVars, faults, task, session, dfs, raw, perDay>>

\* a delete that waits until no other job holds a connection
DeleteWhenAlone(j) ==
    /\ pc[j] = "delete"
    /\ \A k \in UploadIds \ {j} : pc[k] \notin DuckPcs
    /\ "date" \in JobClean(j).df.cols
    /\ perDay' = UpsertDelete(perDay, task[j].vessel_id, JobClean(j).df)
    /\ Goto(j, "insert")
    /\ UNCHANGED <<webVars, uploads, committed, envVars, faults, task, session, dfs, exc,
                   raw, std>>

\* _upsert_per_day, lines 164-173: aggregate, delete the rows of the batch's dates
Delete(j) ==
    /\ pc[j] = "delete"
    /\ IF "date" \notin JobClean(j).df.cols
       THEN Raise(j, "delete") /\ UNCHANGED perDay      \* groupby: KeyError
       ELSE /\ perDay' = UpsertDelete(perDay, task[j].vessel_id, JobClean(j).df)
            /\ Goto(j, "insert")
            /\ UNCHANGED exc
    /\ UNCHANGED <<webVars, uploads, committed, envVars, faults, task, session, dfs, raw, std>>

\* a job that never runs the CII steps
AfterUpsertSkipCii(j) == "finish"

\* where the job goes after the upsert (line 95)
AfterUpsert(j) == IF CapacityGiven(task[j].vessel_capacity) THEN "cii_temp" ELSE "finish"

\* _upsert_per_day, lines 174-177: insert the daily rows
Insert(j) ==
    /\ pc[j] = "insert"
    /\ IF KeyConflict(perDay, Daily(task[j].vessel_id, JobClean(j).df))
       THEN Raise(j, "insert") /\ UNCHANGED perDay
       ELSE /\ perDay' = UpsertInsert(perDay, task[j].vessel_id, JobClean(j).df)
            /\ Goto(j, AfterUpsert(j))
            /\ UNCHANGED exc
    /\ UNCHANGED <<webVars, uploads, committed, envVars, faults, task, session, dfs, raw, std>>

\* line 96
CiiTemp(j) ==
    /\ pc[j] = "cii_temp"
    /\ IF task[j].vessel_capacity = 0
       THEN Raise(j, "cii_temp") /\ UNCHANGED perDay    \* cf * 1000 / c: ZeroDivisionError
       ELSE /\ perDay' = _calculate_cii_temp(perDay, task[j].vessel_id,
                                             task[j].vessel_capacity)
            /\ Goto(j, "cii")
            /\ UNCHANGED exc
    /\ UNCHANGED <<webVars, uploads, committed, envVars, faults, task, session, dfs, raw, std>>

\* line 97
Cii(j) ==
    /\ pc[j] = "cii"
    /\ perDay' = _calculate_cii(perDay, task[j].vessel_id)
    /\ Goto(j, "finish")
    /\ UNCHANGED <<webVars, uploads, committed, envVars, faults, task, session, dfs, exc, raw, std>>

\* a statement on the analytical store raises (I/O error, transaction conflict)
StoreRaises(j) ==
    /\ pc[j] \in DuckPcs
    /\ Fault
    /\ Raise(j, pc[j])
    /\ UNCHANGED <<webVars, uploads, committed, envVars, task, session, dfs, duckVars>>

\* lines 100-102: the date range of the raw frame; None without a date column,
\* NaT.date() = NaT when the column holds no valid date
DateRange(frame) ==
    LET ds == {frame.rows[i]["date"] : i \in 1..Len(frame.rows)} \ {NaN, STR, STRNL}
    IN  IF "date" \notin frame.cols
        THEN [date_start |-> NaN, date_end |-> NaN]
        ELSE IF ds = {}
        THEN [date_start |-> NaT, date_end |-> NaT]
        ELSE [date_start |-> CHOOSE x \in ds : \A y \in ds : x <= y,
              date_end |-> CHOOSE x \in ds : \A y \in ds : x >= y]

\* the flush of repo.update raises on a date the Date column cannot bind
BindRaises(fields) == fields.date_start = NaT \/ fields.date_end = NaT

\* lines 104-111: the fields the final update writes
DoneFields(j) ==
    [status |-> "done",
     date_start |-> DateRange(JobDf(j)).date_start,
     date_end |-> DateRange(JobDf(j)).date_end,
     completed_at |-> now]

\* lines 99-113: derive the date range, set status = done, commit
Finish(j) ==
    /\ pc[j] = "finish"
    /\ \/ /\ ~BindRaises(DoneFields(j))
          /\ uploads' = Update(j, DoneFields(j))
          /\ Goto(j, "returned")
          /\ UNCHANGED <<exc, faults, session>>
       \/ /\ BindRaises(DoneFields(j))     \* the update's flush raises
          /\ Raise(j, "finish")
          /\ Failed(j, "inactive")
          /\ UNCHANGED <<uploads, faults>>
       \/ /\ Fault                         \* the update or the commit raises
          /\ Raise(j, "finish")
          /\ \E how \in {"active", "inactive"} : Failed(j, how)
          /\ UNCHANGED uploads
    /\ UNCHANGED <<webVars, committed, envVars, task, dfs, duckVars>>

\* how process_upload ends once the handler is through (lines 130-133)
HandlerExit == "returned"

\* len(str(exc)) of the exception raised at a step
MessageLen(step) == IF step \in {"raw", "std"} THEN 1500 ELSE 40

\* the message stored whole
TruncateNothing(n) == n

\* str(exc)[:1000]
Truncate(n) == IF n > 1000 THEN 1000 ELSE n

\* lines 116-133: record the failure; when that raises too, roll back
Handler(j) ==
    /\ pc[j] = "except"
    /\ \/ /\ session[j] = "active" /\ j \in committed
          /\ uploads' = Update(j, [status |-> "failed",
                                   error_message |-> Truncate(MessageLen(exc[j])),
                                   completed_at |-> now])
          /\ UNCHANGED faults
       \/ /\ session[j] = "active" /\ j \notin committed
          /\ UNCHANGED <<uploads, faults>>   \* EntityNotFoundError again: rolled back
       \/ /\ session[j] = "active" /\ j \in committed /\ Fault
          /\ UNCHANGED uploads              \* the handler's own write raises: rolled back
       \/ /\ session[j] = "inactive"        \* PendingRollbackError: rolled back
          /\ UNCHANGED <<uploads, faults>>
    /\ Goto(j, HandlerExit)
    /\ exc' = [exc EXCEPT ![j] = "none"]
    /\ Failed(j, "active")
    /\ UNCHANGED <<webVars, committed, envVars, task, dfs, duckVars>>

JobStep(j) ==
    \/ Pickup(j) \/ ReadFile(j) \/ InsertRaw(j) \/ InsertStd(j) \/ Delete(j)
    \/ Insert(j) \/ CiiTemp(j) \/ Cii(j) \/ StoreRaises(j) \/ Finish(j) \/ Handler(j)

Next == UploadRequest \/ RequestCommit \/ \E j \in UploadIds : JobStep(j)

Spec == Init /\ [][Next]_vars

SpecSerial == InitSerial /\ [][Next]_vars

SpecSparse == InitSparse /\ [][Next]_vars

(***************************************************************************)
(* The cleaning pipeline on its own: data_preparation applied to a raw     *)
(* batch, and applied again to what it returned.                           *)
(***************************************************************************)
MaxBatch == 2        \* rows of a raw batch

PlausibilityCols == {"wind_direction", "wind_speed", "speed_ground", "me_shaft_power",
                     "me_fuel_consumption_nmile", "me_fuel_consumption_kwh"}
WideCols == BaseCols \cup PlausibilityCols

\* a row that passes every filter
GoodRow ==
    [c \in WideCols |->
        CASE c = "wind_direction" -> 90
          [] c = "wind_speed" -> 5
          [] c = "speed_ground" -> 12
          [] c = "me_shaft_power" -> 5000
          [] c = "me_fuel_consumption_nmile" -> 10
          [] c = "me_fuel_consumption_kwh" -> 1
          [] OTHER -> Row(101, 12, 80, 72, 0)[c]]

\* the good row with one cell replaced
With(c, v) == [GoodRow EXCEPT ![c] = v]

SampleRows ==
    {GoodRow,
     With("me_rpm", 30), With("me_rpm", 2000), With("me_rpm", STR),
     With("speed_water", 2), With("speed_water", 88888), With("speed_water", -12),
     With("draught_bow", NaN), With("draught_bow", -8), With("draught_astern", STR),
     With("me_hfo_act_cons", STR), With("me_hfo_act_cons", NaN),
     With("wind_direction", 88888), With("wind_direction", STR),
     With("wind_direction", STRNL), [With("wind_direction", STR) EXCEPT !["me_rpm"] = 30],
     With("wind_speed", 60), With("wind_speed", STR),
     With("speed_ground", 88888), With("speed_ground", 2), With("speed_ground", STR),
     With("me_shaft_power", 0), With("me_shaft_power", 8000),
     With("me_fuel_consumption_nmile", 250), With("me_fuel_consumption_kwh", -1)}

\* the frame read_csv makes of rows: a column with text in some row has dtype object
FrameOf(cols, rows) ==
    [cols |-> cols,
     obj |-> {c \in cols : \E i \in 1..Len(rows) : IsText(rows[i][c])},
     rows |-> [i \in 1..Len(rows) |-> [c \in cols |-> rows[i][c]]]]

\* raw batches: up to MaxBatch sample rows, with all columns or the telemetry ones only
Batches ==
    {FrameOf(cols, rows) :
        cols \in {WideCols, BaseCols},
        rows \in UNION {[1..n -> SampleRows] : n \in 1..MaxBatch}}

InitPipeline ==
    /\ InitStores
    /\ client = SerialWorkload
    /\ input \in {[df |-> b, pitch |-> p] : b \in Batches, p \in Pitches}
    /\ output = <<>>

\* data_preparation(df, pitch)
Prepare ==
    /\ output = <<>>
    /\ output' = <<data_preparation(input.df, input.pitch)>>
    /\ UNCHANGED <<webVars, uploads, committed, client, input, otherVars, faults, jobVars,
                   duckVars>>

\* data_preparation applied to the frame the first call returned
PrepareAgain ==
    /\ Len(output) = 1 /\ ~output[1].raised
    /\ output' = Append(output, data_preparation(output[1].df, input.pitch))
    /\ UNCHANGED <<webVars, uploads, committed, client, input, otherVars, faults, jobVars,
                   duckVars>>

NextPipeline == Prepare \/ PrepareAgain

SpecPipeline == InitPipeline /\ [][NextPipeline]_vars

(***************************************************************************)
(* CII rating.  Decimal literals of the source are kept as strings; the    *)
(* z factor is in 1/800, the dd multipliers in hundredths, the reference   *)
(* CII in hundredths, so the required CII is in 1/80000 and the boundaries *)
(* and observed values are in 1/8000000.                                   *)
(***************************************************************************)
ShipTypeCodes == {"I001", "I002", "I003", "I004", "I005", "I006", "I007", "I008",
                  "I009", "I010", "I011", "I011.1", "I012", "X999"}
Years == {2018, 2019, 2023, 2027, 2030, 2031}
Deadweights == {0, 10000, 20000, 65000, 100000, 279000, 300000}
GrossTonnages == {0, 20000, 30000, 60000}

Min(x, y) == IF x <= y THEN x ELSE y

_get_capacity_a_c(ship_type_code, dwt, gt) ==
    CASE ship_type_code = "I001" ->
           [capacity |-> Min(dwt, 279000), a |-> "4745", c |-> "0.622"]
      [] ship_type_code = "I002" ->
           IF dwt >= 65000
           THEN [capacity |-> dwt, a |-> "14405e7", c |-> "2.071"]
           ELSE [capacity |-> dwt, a |-> "8104", c |-> "0.639"]
      [] ship_type_code = "I003" -> [capacity |-> dwt, a |-> "5247", c |-> "0.610"]
      [] ship_type_code = "I004" -> [capacity |-> dwt, a |-> "1984", c |-> "0.489"]
      [] ship_type_code = "I005" ->
           IF dwt >= 20000
           THEN [capacity |-> dwt, a |-> "31948", c |-> "0.792"]
           ELSE [capacity |-> dwt, a |-> "588", c |-> "0.3885"]
      [] ship_type_code = "I006" -> [capacity |-> dwt, a |-> "4600", c |-> "0.557"]
      [] ship_type_code = "I007" -> [capacity |-> dwt, a |-> "5119", c |-> "0.622"]
      [] ship_type_code = "I008" ->
           IF dwt >= 100000
           THEN [capacity |-> dwt, a |-> "9.827", c |-> "0.000"]
           ELSE IF dwt >= 65000
           THEN [capacity |-> dwt, a |-> "14479e10", c |-> "2.673"]
           ELSE [capacity |-> 65000, a |-> "14779e10", c |-> "2.673"]
      [] ship_type_code = "I009" ->
           [capacity |-> IF gt >= 30000 THEN Min(gt, 57700) ELSE gt,
            a |-> "3627", c |-> "0.590"]
      [] ship_type_code = "I010" -> [capacity |-> gt, a |-> "1967", c |-> "0.485"]
      [] ship_type_code = "I011" -> [capacity |-> gt, a |-> "2023", c |-> "0.460"]
      [] ship_type_code = "I011.1" -> [capacity |-> gt, a |-> "4196", c |-> "0.460"]
      [] ship_type_code = "I012" -> [capacity |-> gt, a |-> "930", c |-> "0.383"]
      [] OTHER -> [capacity |-> dwt, a |-> "0.0", c |-> "0.0"]

\* a table that gives a year outside it the factor of its last year
_get_z_percentage_clamped(year) ==
    IF year = 2019 THEN 0 ELSE 172

\* the reduction factor of a year, in 1/800
_get_z_percentage(year) ==
    CASE year = 2019 -> 0
      [] year = 2020 -> 8
      [] year = 2021 -> 16
      [] year = 2022 -> 24
      [] year = 2023 -> 40
      [] year = 2024 -> 56
      [] year = 2025 -> 72
      [] year = 2026 -> 88
      [] year = 2027 -> 109
      [] year = 2028 -> 130
      [] year = 2029 -> 151
      [] year = 2030 -> 172
      [] OTHER -> 0

\* a * pow(capacity, -c), in hundredths, rounded to the nearest
cii_reference(a, c, capacity) ==
    CASE a = "14405e7" /\ c = "2.071" /\ capacity = 65000 -> 1552
      [] a = "14405e7" /\ c = "2.071" /\ capacity = 100000 -> 636
      [] a = "14405e7" /\ c = "2.071" /\ capacity = 279000 -> 76
      [] a = "14405e7" /\ c = "2.071" /\ capacity = 300000 -> 65
      [] a = "14479e10" /\ c = "2.673" /\ capacity = 65000 -> 1976
      [] a = "14779e10" /\ c = "2.673" /\ capacity = 65000 -> 2017
      [] a = "1967" /\ c = "0.485" /\ capacity = 20000 -> 1614
      [] a = "1967" /\ c = "0.485" /\ capacity = 30000 -> 1326
      [] a = "1967" /\ c = "0.485" /\ capacity = 60000 -> 947
      [] a = "1984" /\ c = "0.489" /\ capacity = 10000 -> 2196
      [] a = "1984" /\ c = "0.489" /\ capacity = 20000 -> 1564
      [] a = "1984" /\ c = "0.489" /\ capacity = 65000 -> 879
      [] a = "1984" /\ c = "0.489" /\ capacity = 100000 -> 712
      [] a = "1984" /\ c = "0.489" /\ capacity = 279000 -> 431
      [] a = "1984" /\ c = "0.489" /\ capacity = 300000 -> 416
      [] a = "2023" /\ c = "0.460" /\ capacity = 20000 -> 2126
      [] a = "2023" /\ c = "0.460" /\ capacity = 30000 -> 1764
      [] a = "2023" /\ c = "0.460" /\ capacity = 60000 -> 1282
      [] a = "31948" /\ c = "0.792" /\ capacity = 20000 -> 1253
      [] a = "31948" /\ c = "0.792" /\ capacity = 65000 -> 493
      [] a = "31948" /\ c = "0.792" /\ capacity = 100000 -> 350
      [] a = "31948" /\ c = "0.792" /\ capacity = 279000 -> 155
      [] a = "31948" /\ c = "0.792" /\ capacity = 300000 -> 147
      [] a = "3627" /\ c = "0.590" /\ capacity = 20000 -> 1052
      [] a = "3627" /\ c = "0.590" /\ capacity = 30000 -> 828
      [] a = "3627" /\ c = "0.590" /\ capacity = 57700 -> 563
      [] a = "4196" /\ c = "0.460" /\ capacity = 20000 -> 4409
      [] a = "4196" /\ c = "0.460" /\ capacity = 30000 -> 3659
      [] a = "4196" /\ c = "0.460" /\ capacity = 60000 -> 2660
      [] a = "4600" /\ c = "0.557" /\ capacity = 10000 -> 2721
      [] a = "4600" /\ c = "0.557" /\ capacity = 20000 -> 1850
      [] a = "4600" /\ c = "0.557" /\ capacity = 65000 -> 959
      [] a = "4600" /\ c = "0.557" /\ capacity = 100000 -> 755
      [] a = "4600" /\ c = "0.557" /\ capacity = 279000 -> 426
      [] a = "4600" /\ c = "0.557" /\ capacity = 300000 -> 409
      [] a = "4745" /\ c = "0.622" /\ capacity = 10000 -> 1543
      [] a = "4745" /\ c = "0.622" /\ capacity = 20000 -> 1002
      [] a = "4745" /\ c = "0.622" /\ capacity = 65000 -> 482
      [] a = "4745" /\ c = "0.622" /\ capacity = 100000 -> 368
      [] a = "4745" /\ c = "0.622" /\ capacity = 279000 -> 195
      [] a = "5119" /\ c = "0.622" /\ capacity = 10000 -> 1664
      [] a = "5119" /\ c = "0.622" /\ capacity = 20000 -> 1081
      [] a = "5119" /\ c = "0.622" /\ capacity = 65000 -> 519
      [] a = "5119" /\ c = "0.622" /\ capacity = 100000 -> 397
      [] a = "5119" /\ c = "0.622" /\ capacity = 279000 -> 210
      [] a = "5119" /\ c = "0.622" /\ capacity = 300000 -> 201
      [] a = "5247" /\ c = "0.610" /\ capacity = 10000 -> 1905
      [] a = "5247" /\ c = "0.610" /\ capacity = 20000 -> 1248
      [] a = "5247" /\ c = "0.610" /\ capacity = 65000 -> 608
      [] a = "5247" /\ c = "0.610" /\ capacity = 100000 -> 468
      [] a = "5247" /\ c = "0.610" /\ capacity = 279000 -> 250
      [] a = "5247" /\ c = "0.610" /\ capacity = 300000 -> 239
      [] a = "588" /\ c = "0.3885" /\ capacity = 10000 -> 1642
      [] a = "8104" /\ c = "0.639" /\ capacity = 10000 -> 2253
      [] a = "8104" /\ c = "0.639" /\ capacity = 20000 -> 1447
      [] a = "9.827" /\ c = "0.000" /\ capacity = 100000 -> 983
      [] a = "9.827" /\ c = "0.000" /\ capacity = 279000 -> 983
      [] a = "9.827" /\ c = "0.000" /\ capacity = 300000 -> 983
      [] a = "930" /\ c = "0.383" /\ capacity = 20000 -> 2095
      [] a = "930" /\ c = "0.383" /\ capacity = 30000 -> 1794
      [] a = "930" /\ c = "0.383" /\ capacity = 60000 -> 1375

\* in 1/80000
get_required_cii(year, ship_type_code, dwt, gt) ==
    LET p == _get_capacity_a_c(ship_type_code, dwt, gt)
    IN  IF p.a = "0.0" \/ p.capacity = 0 THEN 0
        ELSE cii_reference(p.a, p.c, p.capacity) * (800 - _get_z_percentage(year))

\* the multipliers with the second and third exchanged for I003
get_dd_vectors_exchanged(ship_type_code, dwt) ==
    IF ship_type_code = "I003" THEN <<82, 108, 93, 128>> ELSE <<86, 94, 106, 118>>

\* (d1, d2, d3, d4), in hundredths
get_dd_vectors(ship_type_code, dwt) ==
    CASE ship_type_code = "I001" -> <<86, 94, 106, 118>>
      [] ship_type_code = "I002" ->
           IF dwt >= 65000 THEN <<81, 91, 112, 144>> ELSE <<85, 95, 106, 125>>
      [] ship_type_code = "I003" -> <<82, 93, 108, 128>>
      [] ship_type_code = "I004" -> <<83, 94, 107, 119>>
      [] ship_type_code = "I005" -> <<83, 94, 106, 119>>
      [] ship_type_code = "I006" -> <<78, 91, 107, 120>>
      [] ship_type_code = "I007" -> <<87, 96, 106, 114>>
      [] ship_type_code = "I008" ->
           IF dwt >= 100000 THEN <<89, 98, 106, 113>> ELSE <<78, 92, 110, 137>>
      [] ship_type_code = "I009" -> <<86, 94, 106, 116>>
      [] ship_type_code = "I010" -> <<76, 89, 108, 127>>
      [] ship_type_code \in {"I011", "I011.1"} -> <<76, 92, 114, 130>>
      [] ship_type_code = "I012" -> <<87, 95, 106, 116>>
      [] OTHER -> <<86, 94, 106, 118>>

\* the rating without the test of the required value
get_cii_rating_unguarded(cii, year, ship_type_code, dwt, gt) ==
    LET required == get_required_cii(year, ship_type_code, dwt, gt)
        d == get_dd_vectors(ship_type_code, dwt)
    IN  IF cii <= required * d[1] THEN "A"
        ELSE IF cii <= required * d[2] THEN "B"
        ELSE IF cii <= required * d[3] THEN "C"
        ELSE IF cii <= required * d[4] THEN "D"
        ELSE "E"

\* the rating with strict comparisons
get_cii_rating_strict(cii, year, ship_type_code, dwt, gt) ==
    LET required == get_required_cii(year, ship_type_code, dwt, gt)
        d == get_dd_vectors(ship_type_code, dwt)
    IN  IF required <= 0 THEN "N/A"
        ELSE IF cii < required * d[1] THEN "A"
        ELSE IF cii < required * d[2] THEN "B"
        ELSE IF cii < required * d[3] THEN "C"
        ELSE IF cii < required * d[4] THEN "D"
        ELSE "E"

get_cii_rating(cii, year, ship_type_code, dwt, gt) ==
    LET required == get_required_cii(year, ship_type_code, dwt, gt)
        d == get_dd_vectors(ship_type_code, dwt)
        superior == required * d[1]
        lower == required * d[2]
        upper == required * d[3]
        inferior == required * d[4]
    IN  IF required <= 0 THEN "N/A"
        ELSE IF cii <= superior THEN "A"
        ELSE IF cii <= lower THEN "B"
        ELSE IF cii <= upper THEN "C"
        ELSE IF cii <= inferior THEN "D"
        ELSE "E"

get_cii_boundaries(year, ship_type_code, dwt, gt) ==
    LET required == get_required_cii(year, ship_type_code, dwt, gt)
        d == get_dd_vectors(ship_type_code, dwt)
    IN  [superior |-> required * d[1], lower |-> required * d[2],
         upper |-> required * d[3], inferior |-> required * d[4]]

\* observed values: multiples of the required CII (half, each multiplier of the
\* category, 1.1 times, twice), each also one step below and above
Observed(year, ship_type_code, dwt, gt) ==
    LET required == get_required_cii(year, ship_type_code, dwt, gt)
        d == get_dd_vectors(ship_type_code, dwt)
    IN  {required * k + e : k \in {50, 110, 200} \cup {d[i] : i \in 1..4}, e \in {-1, 0, 1}}

InitRating ==
    /\ InitStores
    /\ client = SerialWorkload
    /\ \E y \in Years, s \in ShipTypeCodes, w \in Deadweights, g \in GrossTonnages :
          \E x \in Observed(y, s, w, g) :
             input = [cii |-> x, year |-> y, ship_type_code |-> s, dwt |-> w, gt |-> g]
    /\ output = <<>>

\* get_cii_rating(cii, year, ship_type_code, dwt, gt)
Rate ==
    /\ Len(output) = 0
    /\ output' = <<get_cii_rating(input.cii, input.year, input.ship_type_code,
                                  input.dwt, input.gt)>>
    /\ UNCHANGED <<webVars, uploads, committed, client, input, otherVars, faults, jobVars,
                   duckVars>>

\* get_cii_boundaries(year, ship_type_code, dwt, gt)
Boundaries ==
    /\ Len(output) = 1
    /\ output' = Append(output, get_cii_boundaries(input.year, input.ship_type_code,
                                                   input.dwt, input.gt))
    /\ UNCHANGED <<webVars, uploads, committed, client, input, otherVars, faults, jobVars,
                   duckVars>>

NextRating == Rate \/ Boundaries

SpecRating == InitRating /\ [][NextRating]_vars

(***************************************************************************)
(* The CII report of the analytics service: get_vessel_cii resolves the    *)
(* vessel's ship type through the meta service's map, cached in-process,   *)
(* and rates each daily row.  The observed CII is in 1/8000000, as above.  *)
(***************************************************************************)
MaxRows == 2
MaxCalls == 2

\* GET /meta/ship_type: the ship types the meta service lists, id -> code
MetaShipTypes == (1 :> "I001") @@ (2 :> "I004") @@ (3 :> "I003")

\* GET /vessel/{id}: the fields of the vessel get_vessel_info reads; ship_type is an
\* id the meta service lists, or one it does not (9)
VesselsOfService ==
    [ship_type : {1, 2, 9}, dead_weight : {0, 100000}, gross_tone : {0, 30000}]

\* the rows of vessel_data_per_day the report reads: the year of the date, and the cii
ReportRows ==
    [year : {2023, 2031},
     cii : {NaN, 0} \cup {get_required_cii(2023, "I001", 100000, 0) * k : k \in {50, 110, 200}}]

\* {} of Python, and dict.get(key, default)
EmptyMap == <<>>
Get(map, key, default) == IF key \in DOMAIN map THEN map[key] ELSE default

\* _ship_type_cache: None, or the map of an earlier call
NoCache == [cached |-> FALSE, map |-> EmptyMap]
Cached(map) == [cached |-> TRUE, map |-> map]

\* get_ship_type_map(): the map the call returns
get_ship_type_map(cache, reachable, listed) ==
    IF cache.cached THEN cache.map
    ELSE IF reachable THEN listed
    ELSE EmptyMap

\* get_ship_type_map(): the cache the call leaves
CacheAfter(cache, reachable, listed) ==
    IF cache.cached THEN cache
    ELSE IF reachable THEN Cached(listed)
    ELSE NoCache

\* a resolution without the default code
get_vessel_info_no_default(vessel, ship_type_map) ==
    [dead_weight |-> vessel.dead_weight, gross_tone |-> vessel.gross_tone,
     ship_type_code |-> Get(ship_type_map, vessel.ship_type, "X999")]

get_vessel_info(vessel, ship_type_map) ==
    [dead_weight |-> vessel.dead_weight, gross_tone |-> vessel.gross_tone,
     ship_type_code |-> Get(ship_type_map, vessel.ship_type, "I001")]

\* bounds of a row that is not rated
NoBounds == [superior |-> 0, lower |-> 0, upper |-> 0, inferior |-> 0]

\* get_vessel_cii, one row of the loop
VesselCiiData(row, info) ==
    IF row.cii # NaN /\ row.cii > 0
    THEN [cii |-> row.cii,
          rating |-> get_cii_rating(row.cii, row.year, info.ship_type_code,
                                    info.dead_weight, info.gross_tone),
          bounds |-> get_cii_boundaries(row.year, info.ship_type_code,
                                        info.dead_weight, info.gross_tone)]
    ELSE [cii |-> row.cii, rating |-> "N/A", bounds |-> NoBounds]

InitReport ==
    /\ InitStores
    /\ client = SerialWorkload
    /\ input \in [vessel : VesselsOfService, ship_types : {MetaShipTypes},
                 rows : UNION {[1..n -> ReportRows] : n \in 1..MaxRows}]
    /\ output = <<>>

\* GET of the CII report, with the meta service reachable or not
get_vessel_cii(reachable) ==
    LET ship_type_map == get_ship_type_map(_ship_type_cache, reachable, input.ship_types)
        info == get_vessel_info(input.vessel, ship_type_map)
    IN  /\ Len(output) < MaxCalls
        /\ _ship_type_cache' = CacheAfter(_ship_type_cache, reachable, input.ship_types)
        /\ output' = Append(output, [i \in DOMAIN input.rows |->
                                        VesselCiiData(input.rows[i], info)])
        /\ UNCHANGED <<webVars, uploads, committed, client, input, users, vessels, faults,
                       jobVars, duckVars>>

ReportReachable == get_vessel_cii(TRUE)
ReportUnreachable == get_vessel_cii(FALSE)

NextReport == ReportReachable \/ ReportUnreachable

SpecReport == InitReport /\ [][NextReport]_vars

(***************************************************************************)
(* The identity service: users, a user's id being its position.  A request *)
(* is one step: the handler, then get_db's commit.  output holds the last  *)
(* request and its answer, n counting the requests.                        *)
(***************************************************************************)
MaxUsers == 2
MaxRequests == 4

\* the usernames and passwords the clients send
Credentials == [username : {"ann", "bob"}, password : {"pw1", "pw2"}]

\* bcrypt.hashpw(password, salt) and bcrypt.checkpw(plain, hashed)
get_password_hash(password) == <<"bcrypt", password>>
verify_password(plain_password, hashed_password) ==
    hashed_password = get_password_hash(plain_password)

\* select(User).where(User.username == username), first(): the rows it may return
\* (the statement has no ORDER BY and username is not unique)
find_by_username(username) == {i \in DOMAIN users : users[i].username = username}

\* get_user_by_id raises EntityNotFoundError: no such row, or a disabled one
UserNotFound(user_id) == user_id \notin DOMAIN users \/ users[user_id].disabled

\* the request and its answer
Answer(op, user_id, body, status) ==
    /\ IF Len(output) = 0 THEN TRUE ELSE output[1].n < MaxRequests
    /\ output' = <<[op |-> op, user_id |-> user_id, body |-> body, status |-> status,
                    n |-> IF Len(output) = 0 THEN 1 ELSE output[1].n + 1]>>
    /\ UNCHANGED <<webVars, uploads, committed, client, input, _ship_type_cache, vessels,
                   faults, jobVars, duckVars>>

\* POST /user/register
register_user ==
    \E body \in Credentials :
        /\ Len(users) < MaxUsers
        /\ users' = Append(users, [username |-> body.username,
                                   hashed_password |-> get_password_hash(body.password),
                                   disabled |-> FALSE])
        /\ Answer("register", Len(users) + 1, body, 200)

\* POST /user/login: authenticate_user, then the token
login ==
    \E body \in Credentials :
        /\ UNCHANGED users
        /\ \/ /\ find_by_username(body.username) = {}
              /\ Answer("login", 0, body, 401)
           \/ \E i \in find_by_username(body.username) :
                 IF verify_password(body.password, users[i].hashed_password)
                 THEN Answer("login", i, body, 200)
                 ELSE Answer("login", 0, body, 401)

\* GET /user/{user_id}
get_user ==
    \E user_id \in 1..MaxUsers :
        /\ UNCHANGED users
        /\ Answer("get", user_id, NaN, IF UserNotFound(user_id) THEN 404 ELSE 200)

\* DELETE /user/{user_id}
delete_user ==
    \E user_id \in 1..MaxUsers :
        IF UserNotFound(user_id)
        THEN UNCHANGED users /\ Answer("delete", user_id, NaN, 404)
        ELSE /\ users' = [users EXCEPT ![user_id].disabled = TRUE]
             /\ Answer("delete", user_id, NaN, 200)

InitIdentity ==
    /\ InitStores
    /\ client = SerialWorkload
    /\ input = NaN
    /\ output = <<>>

NextIdentity == register_user \/ login \/ get_user \/ delete_user

SpecIdentity == InitIdentity /\ [][NextIdentity]_vars

(***************************************************************************)
(* The vessel service: vessels by id, each with its equipment list (name   *)
(* and fuel-type ids) and its curve list (name and points).  A request is  *)
(* one step; output holds the last request and its answer.                 *)
(***************************************************************************)
MaxVessels == 2

\* request bodies: set holds the fields the request gives (model_fields_set); a field
\* the request omits has the default of the schema
VesselBodies ==
    {b \in [set : SUBSET {"name", "equipments", "curves"},
            name : {"", "N1", "N2"},
            equipments : {<<>>, <<[name |-> "me", fuel_type_ids |-> <<2>>]>>,
                          <<[name |-> "me", fuel_type_ids |-> <<1>>],
                            [name |-> "dg", fuel_type_ids |-> <<1, 7>>]>>},
            curves : {<<>>, <<[curve_name |-> "laden",
                               curve_data |-> <<[speed_water |-> 10, me_power |-> 2800],
                                                [speed_water |-> 12, me_power |-> 4500]>>]>>}] :
        /\ "name" \in b.set <=> b.name # ""
        /\ "equipments" \notin b.set => b.equipments = <<>>
        /\ "curves" \notin b.set => b.curves = <<>>}

\* the request and its answer, n counting the requests
VesselAnswer(op, vessel_id, body, status) ==
    /\ IF Len(output) = 0 THEN TRUE ELSE output[1].n < MaxRequests
    /\ output' = <<[op |-> op, vessel_id |-> vessel_id, body |-> body, status |-> status,
                    n |-> IF Len(output) = 0 THEN 1 ELSE output[1].n + 1]>>
    /\ UNCHANGED <<webVars, uploads, committed, client, input, _ship_type_cache, users,
                   faults, jobVars, duckVars>>

\* POST /vessel: VesselCreate requires the name
create_vessel ==
    \E data \in VesselBodies :
        LET id == IF DOMAIN vessels = {} THEN 1
                  ELSE 1 + CHOOSE i \in DOMAIN vessels : \A k \in DOMAIN vessels : k <= i
        IN  /\ "name" \in data.set
            /\ id <= MaxVessels
            /\ vessels' = [i \in DOMAIN vessels \cup {id} |->
                             IF i = id
                             THEN [name |-> data.name, equipments |-> data.equipments,
                                   curves |-> data.curves]
                             ELSE vessels[i]]
            /\ VesselAnswer("create", id, data, 200)

\* PUT /vessel/{vessel_id}: the scalar fields the request gives are set; the lists
\* are cleared and created again from data.equipments and data.curves
update_vessel ==
    \E vessel_id \in 1..MaxVessels, data \in VesselBodies :
        IF vessel_id \notin DOMAIN vessels
        THEN UNCHANGED vessels /\ VesselAnswer("update", vessel_id, data, 404)
        ELSE /\ vessels' = [vessels EXCEPT ![vessel_id] =
                  [name |-> IF "name" \in data.set THEN data.name ELSE @.name,
                   equipments |-> data.equipments,
                   curves |-> data.curves]]
             /\ VesselAnswer("update", vessel_id, data, 200)

\* DELETE /vessel/{vessel_id}: the row goes, its equipment and curves with it
delete_vessel ==
    \E vessel_id \in 1..MaxVessels :
        IF vessel_id \notin DOMAIN vessels
        THEN UNCHANGED vessels /\ VesselAnswer("delete", vessel_id, NaN, 404)
        ELSE /\ vessels' = [i \in DOMAIN vessels \ {vessel_id} |-> vessels[i]]
             /\ VesselAnswer("delete", vessel_id, NaN, 200)

InitVessel ==
    /\ InitStores
    /\ client = SerialWorkload
    /\ input = NaN
    /\ output = <<>>

NextVessel == create_vessel \/ update_vessel \/ delete_vessel

SpecVessel == InitVessel /\ [][NextVessel]_vars

(***************************************************************************)
(* Properties of the job lifecycle.                                        *)
(***************************************************************************)
\* the change of upload id's persisted status made by a step, as <<before, after>>
StatusStep(id) == <<Persisted(id), Persisted(id)'>>

LifecycleSteps == {<<"absent", "pending">>, <<"pending", "processing">>,
                   <<"processing", "done">>, <<"processing", "failed">>}

\* C1 as stated: the persisted status of every upload only changes along
\* pending -> processing -> done or pending -> processing -> failed, whatever fails
C1_StatusOnlyAlongLifecycle ==
    [][\A id \in UploadIds :
          Persisted(id)' # Persisted(id) => StatusStep(id) \in LifecycleSteps]_vars

\* C1: the persisted status of every upload only changes along
\* pending -> processing -> done or failed, or from pending straight to failed when the
\* pickup of the job (look-up, status write, commit) raised; no step moves pending
\* to done, none leaves done or failed, none returns to pending
C1_StatusLifecycleOrPickupFailure ==
    [][\A id \in UploadIds :
          Persisted(id)' # Persisted(id) =>
             \/ StatusStep(id) \in LifecycleSteps
             \/ /\ StatusStep(id) = <<"pending", "failed">>
                /\ pc[id] = "except" /\ exc[id] = "pickup"]_vars

\* one job ended in failed and another in done
C1_Witness ==
    \E id, other \in UploadIds :
        /\ pc[id] = "returned" /\ Persisted(id) = "failed"
        /\ pc[other] = "returned" /\ Persisted(other) = "done"

\* C2 as stated, for the jobs that have run to their end: process_upload has not
\* returned with the status processing left behind, so a started job is done or failed
C2_StartedJobEndsTerminal ==
    \A id \in UploadIds : pc[id] = "returned" => Persisted(id) # "processing"

\* the steps of the pipeline whose exception reaches the handler
PipelineSteps == {"read", "raw", "clean", "std", "delete", "insert", "cii_temp", "cii"}

\* C3 as stated: once a pipeline step has raised, the handler leaves the job recorded
\* as failed and process_upload returns
C3_PipelineFailureRecorded ==
    [][\A id \in UploadIds :
          (pc[id] = "except" /\ exc[id] \in PipelineSteps /\ pc'[id] # "except") =>
             (pc'[id] = "returned" /\ Persisted(id)' = "failed")]_vars

\* the requests the endpoint is to reject: empty content, or a name not ending in .csv
RejectedInputs ==
    {in \in FileNames \X Contents : in[2] = "" \/ ~EndsWithCsv(in[1])}

\* a step is the endpoint's handling of one of these requests
RejectedRequestStep ==
    /\ UNCHANGED <<committed, faults, dfs, exc, session, duckVars>>
    /\ \E in \in RejectedInputs, vessel_id \in Vessels, pitch \in Pitches,
          vessel_capacity \in Capacities :
          upload_standard_csv(vessel_id, in[1], in[2], pitch, vessel_capacity, now')

HasRead(j) == dfs[j] # ""

\* the step is one of job j's
StepOf(j) == pc'[j] # pc[j]

\* the step persists done for job j
BecomesDone(j) == Persisted(j) # "done" /\ Persisted(j)' = "done"

\* the rows job j's frame adds to a telemetry table
RowsOf(j, frame) == TelemetryRows(task[j].vessel_id, frame, Len(frame.rows))

\* the cleaning pipeline returned zero rows for job j's batch
CleansToNothing(j) ==
    HasRead(j) /\ ~JobClean(j).raised /\ Len(JobClean(j).df.rows) = 0

\* C5 as stated, for runs in which no operation has failed for an outside reason: the
\* steps of a job whose batch cleans to zero rows leave the cleaned table and the
\* per-day table as they were, its raw insert appends the raw rows and leads straight
\* to the final status write, and that write persists done
C5_EmptyBatchReachesDone ==
    [][\A j \in UploadIds :
          (CleansToNothing(j) /\ StepOf(j) /\ faults' = 0) =>
             /\ std' = std /\ perDay' = perDay
             /\ IF pc[j] = "raw"
                THEN raw' = raw (+) RowsOf(j, JobDf(j)) /\ pc'[j] = "finish"
                ELSE raw' = raw
             /\ pc[j] = "finish" => Persisted(j)' = "done"]_vars

\* the caller supplied a positive capacity
Positive(c) == c # NaN /\ c > 0

\* the per-day row of a key, as a set
RowAt(table, vessel_id, date) ==
    {r \in table : r["vessel_id"] = vessel_id /\ r["date"] = date}

IsDone(j) == pc[j] = "returned" /\ Persisted(j) = "done"

\* job j's cleaned batch has rows of the row's vessel and date
Covers(j, r) ==
    /\ HasRead(j)
    /\ task[j].vessel_id = r["vessel_id"]
    /\ r["date"] \in DailyDates(JobClean(j).df)

\* the cii_temp job j computed for date d of its batch
ComputedTemp(j, d) ==
    CiiFormula(DailyRow(task[j].vessel_id, JobClean(j).df, d), task[j].vessel_capacity)

\* C7 as stated: the non-zero cii_temp an earlier job computed for (vessel, date) is
\* still the stored value after any later job for that vessel is done
C7_EarlierValueKept ==
    \A j, k \in UploadIds :
        (/\ j < k /\ IsDone(j) /\ IsDone(k)
         /\ task[j].vessel_id = task[k].vessel_id
         /\ Positive(task[j].vessel_capacity)) =>
           \A d \in DailyDates(JobClean(j).df) :
               ComputedTemp(j, d) # 0 =>
                  \E r \in RowAt(perDay, task[j].vessel_id, d) :
                      r["cii_temp"] = ComputedTemp(j, d)

\* C7: a per-day row that holds a non-zero cii_temp keeps that value through every
\* step of a job whose cleaned batch does not cover the row's date (whatever capacity
\* the job supplies); only a job that covers the date replaces the row
C7_NonzeroTempKeptUnlessCovered ==
    [][\A r \in perDay :
          (r["cii_temp"] # 0 /\ \A j \in UploadIds : StepOf(j) => ~Covers(j, r)) =>
             \E q \in RowAt(perDay', r["vessel_id"], r["date"]) :
                 q["cii_temp"] = r["cii_temp"]]_vars

\* a later job with another positive capacity is done, and a date of the earlier job
\* that it does not cover still has its non-zero cii_temp
C7_Witness ==
    \E j, k \in UploadIds :
        /\ j < k /\ IsDone(j) /\ IsDone(k)
        /\ task[j].vessel_id = task[k].vessel_id
        /\ Positive(task[j].vessel_capacity) /\ Positive(task[k].vessel_capacity)
        /\ task[j].vessel_capacity # task[k].vessel_capacity
        /\ DailyDates(JobClean(k).df) # {}
        /\ \E r \in perDay :
              /\ Covers(j, r) /\ ~Covers(k, r)
              /\ r["cii_temp"] # 0 /\ r["cii_temp"] = ComputedTemp(j, r["date"])

\* the vessel's rows of the row's calendar year up to its date
YearToDate(table, r) ==
    {q \in table : /\ q["vessel_id"] = r["vessel_id"]
                   /\ Year(q["date"]) = Year(r["date"])
                   /\ q["date"] <= r["date"]}

RECURSIVE SumTemp(_)
SumTemp(rows) ==
    IF rows = {} THEN 0
    ELSE LET q == CHOOSE x \in rows : TRUE
         IN  q["cii_temp"] + SumTemp(rows \ {q})

\* the arithmetic mean of cii_temp over the vessel's year to date
MeanTemp(table, r) ==
    SumTemp(YearToDate(table, r)) \div Cardinality(YearToDate(table, r))

\* every row of the vessel has the year-to-date mean, the first of a year its own value
CiiCurrent(table, vessel_id) ==
    \A r \in table :
        r["vessel_id"] = vessel_id =>
           /\ r["cii"] = MeanTemp(table, r)
           /\ YearToDate(table, r) = {r} => r["cii"] = r["cii_temp"]

\* C8: when a job with positive capacity and a non-empty cleaned batch becomes done
\* (one upload at a time), every per-day row of its vessel has cii equal to the mean
\* of cii_temp over the vessel's rows of the same year up to the row's date
C8_CiiIsYearToDateMean ==
    [][\A j \in UploadIds :
          (/\ BecomesDone(j)
           /\ Positive(task[j].vessel_capacity)
           /\ DailyDates(JobClean(j).df) # {}) =>
             CiiCurrent(perDay', task[j].vessel_id)]_vars

\* a job with capacity is done after backfilling a date before one an earlier job of
\* the vessel stored; the vessel has rows in two years and a cii that is a true mean
C8_Witness ==
    \E j, k \in UploadIds :
        /\ j < k /\ IsDone(j) /\ IsDone(k)
        /\ task[j].vessel_id = task[k].vessel_id
        /\ Positive(task[k].vessel_capacity)
        /\ \E d \in DailyDates(JobClean(k).df) :
              \A e \in DailyDates(JobClean(j).df) : d < e
        /\ \E r, q \in perDay :
              /\ r["vessel_id"] = task[k].vessel_id /\ q["vessel_id"] = task[k].vessel_id
              /\ Year(r["date"]) # Year(q["date"])
              /\ r["cii"] # r["cii_temp"]
        /\ CiiCurrent(perDay, task[k].vessel_id)

\* C9 as stated, for runs in which no operation has failed for an outside reason: when
\* any job becomes done, with or without capacity, every per-day row of its vessel has
\* cii equal to the year-to-date mean of the stored cii_temp
C9_CiiNeverStale ==
    [][\A j \in UploadIds :
          (BecomesDone(j) /\ faults' = 0) =>
             CiiCurrent(perDay', task[j].vessel_id)]_vars

\* C10: in every state the per-day table holds at most one row per (vessel, date)
C10_PerDayKeyUnique ==
    \A r, q \in perDay :
        (r["vessel_id"] = q["vessel_id"] /\ r["date"] = q["date"]) => r = q

\* two jobs of a vessel overlapped and the insert of one met the key of the other
C10_Witness ==
    \E j, k \in UploadIds :
        /\ pc[j] = "except" /\ exc[j] = "insert" /\ faults = 0
        /\ pc[k] \in {"cii_temp", "cii", "finish"}
        /\ task[j].vessel_id = task[k].vessel_id
        /\ \E r \in perDay : Covers(j, r) /\ Covers(k, r)

(***************************************************************************)
(* Properties of the per-day upsert.                                       *)
(***************************************************************************)
\* the sensor means of a per-day row
SensorsOf(r) == [c \in SensorCols |-> r[c]]

\* the sensor means of job j's cleaned batch at date d
BatchMeans(j, d) == SensorsOf(DailyRow(task[j].vessel_id, JobClean(j).df, d))

\* C11: when a job becomes done (one upload at a time), the per-day row of each date of
\* its cleaned batch is one row that holds the daily means of that batch alone, the
\* cii_temp computed from those means with the job's capacity (0 without a positive
\* capacity) and the cii computed from the stored values (0 without a positive
\* capacity), whatever an earlier upload of the vessel had stored for the date
C11_LaterBatchReplacesRow ==
    [][\A k \in UploadIds :
          BecomesDone(k) =>
             \A d \in DailyDates(JobClean(k).df) :
                /\ Cardinality(RowAt(perDay', task[k].vessel_id, d)) = 1
                /\ \A r \in RowAt(perDay', task[k].vessel_id, d) :
                      /\ SensorsOf(r) = BatchMeans(k, d)
                      /\ r["cii_temp"] = IF Positive(task[k].vessel_capacity)
                                          THEN ComputedTemp(k, d) ELSE 0
                      /\ r["cii"] = IF Positive(task[k].vessel_capacity)
                                     THEN MeanTemp(perDay', r) ELSE 0]_vars

\* two uploads of a vessel are done one after the other, the earlier with computed CII;
\* they share a date on which their daily means differ, and the row holds the later
\* batch's means with cii_temp = 0
C11_Witness ==
    \E j, k \in UploadIds :
        /\ j < k /\ IsDone(j) /\ IsDone(k)
        /\ task[j].vessel_id = task[k].vessel_id
        /\ Positive(task[j].vessel_capacity) /\ ~Positive(task[k].vessel_capacity)
        /\ \E r \in perDay :
              /\ Covers(j, r) /\ Covers(k, r)
              /\ BatchMeans(j, r["date"]) # BatchMeans(k, r["date"])
              /\ ComputedTemp(j, r["date"]) # 0
              /\ SensorsOf(r) = BatchMeans(k, r["date"])
              /\ r["cii_temp"] = 0 /\ r["cii"] = 0

\* no upload job stands between its scheduling and its return
NoJobRunning == \A j \in UploadIds : pc[j] \notin Active

\* the rows of the cleaned-telemetry table for a vessel and date
StdRowsAt(vessel_id, date) ==
    {t \in BagToSet(std) : t["vessel_id"] = vessel_id /\ t["date"] = date}

\* sum and count of a field over rows of a bag, each row as often as the bag holds it
RECURSIVE StdSum(_, _)
StdSum(rows, c) ==
    IF rows = {} THEN 0
    ELSE LET t == CHOOSE x \in rows : TRUE
         IN  CopiesIn(t, std) * t[c] + StdSum(rows \ {t}, c)

RECURSIVE StdCount(_)
StdCount(rows) ==
    IF rows = {} THEN 0
    ELSE LET t == CHOOSE x \in rows : TRUE
         IN  CopiesIn(t, std) + StdCount(rows \ {t})

\* the mean of field c over the vessel-date's rows of the cleaned-telemetry table
StdMean(vessel_id, date, c) ==
    IF StdRowsAt(vessel_id, date) = {} THEN NaN
    ELSE StdSum(StdRowsAt(vessel_id, date), c) \div StdCount(StdRowsAt(vessel_id, date))

\* C12 as stated, for runs in which no operation has failed for an outside reason:
\* whenever no job is running, every sensor field of every per-day row is the mean of
\* the field over all rows the cleaned-telemetry table holds for the row's vessel and date
C12_RowIsMeanOfStoredRows ==
    (NoJobRunning /\ faults = 0) =>
       \A r \in perDay : \A c \in SensorCols :
          r[c] = StdMean(r["vessel_id"], r["date"], c)

\* job k is the last upload whose cleaned batch covers the vessel and date
LastCovering(k, vessel_id, d) ==
    /\ HasRead(k) /\ task[k].vessel_id = vessel_id /\ d \in DailyDates(JobClean(k).df)
    /\ \A l \in UploadIds :
          (l > k /\ HasRead(l) /\ task[l].vessel_id = vessel_id) =>
             d \notin DailyDates(JobClean(l).df)

\* C12: whenever no job is running (one upload at a time), every per-day row holds the
\* sensor means of the cleaned batch of one upload that covers its vessel and date,
\* and that batch's rows are in the cleaned-telemetry table; the row of a date whose
\* last covering upload is done holds the means of that upload's batch
C12_RowIsMeanOfLastBatch ==
    NoJobRunning =>
       /\ \A r \in perDay :
             \E j \in UploadIds :
                /\ Covers(j, r)
                /\ SensorsOf(r) = BatchMeans(j, r["date"])
                /\ RowsOf(j, JobClean(j).df) \sqsubseteq std
       /\ \A k \in UploadIds :
             IsDone(k) =>
                \A d \in DailyDates(JobClean(k).df) :
                   LastCovering(k, task[k].vessel_id, d) =>
                      \E r \in RowAt(perDay, task[k].vessel_id, d) :
                         SensorsOf(r) = BatchMeans(k, d)

\* two uploads of a vessel are done; the row of a date they share holds the later
\* batch's means, which are not the means over the stored rows of both, and a date of
\* the earlier batch alone still has its row
C12_Witness ==
    /\ NoJobRunning
    /\ \E j, k \in UploadIds :
          /\ j < k /\ IsDone(j) /\ IsDone(k)
          /\ task[j].vessel_id = task[k].vessel_id
          /\ \E r \in perDay :
                /\ Covers(j, r) /\ Covers(k, r)
                /\ SensorsOf(r) = BatchMeans(k, r["date"])
                /\ \E c \in SensorCols : r[c] # StdMean(r["vessel_id"], r["date"], c)
          /\ \E q \in perDay : Covers(j, q) /\ ~Covers(k, q)

\* the per-day table a job with these arguments and this cleaned batch leaves behind
\* when each of its statements takes effect, none interleaved with another job's
PerDayAfter(table, t, clean) ==
    IF clean.raised \/ Len(clean.df.rows) = 0 THEN table
    ELSE LET upserted == UpsertInsert(UpsertDelete(table, t.vessel_id, clean.df),
                                      t.vessel_id, clean.df)
         IN  IF CapacityGiven(t.vessel_capacity)
             THEN _calculate_cii(
                      _calculate_cii_temp(upserted, t.vessel_id, t.vessel_capacity),
                      t.vessel_id)
             ELSE upserted

\* the per-day table after the first n uploads, run one after the other without failure
RECURSIVE Replay(_)
Replay(n) ==
    IF n = 0 THEN {} ELSE PerDayAfter(Replay(n - 1), task[n], JobClean(n))

\* job k processes the file of the job before it again: same content, vessel, pitch
\* and capacity, the job before it done
Rerun(k) ==
    /\ k > 1 /\ HasRead(k) /\ IsDone(k - 1)
    /\ dfs[k] = dfs[k - 1]
    /\ task[k].vessel_id = task[k - 1].vessel_id
    /\ task[k].pitch = task[k - 1].pitch
    /\ task[k].vessel_capacity = task[k - 1].vessel_capacity

\* C13: a job that processes the file of the job done before it a second time, with
\* the same vessel, pitch and capacity (one upload at a time, no operation failing for
\* an outside reason), raises at no step, and when it is done the per-day table is
\* exactly the table the first run left
C13_SecondRunLeavesTable ==
    [][\A k \in UploadIds :
          (Rerun(k) /\ StepOf(k) /\ faults' = 0) =>
             /\ pc'[k] # "except"
             /\ BecomesDone(k) => perDay' = Replay(k - 1)]_vars

\* a second run with a positive capacity is done over rows with computed CII
C13_Witness ==
    \E k \in UploadIds :
        /\ Rerun(k) /\ IsDone(k) /\ faults = 0
        /\ Positive(task[k].vessel_capacity)
        /\ perDay = Replay(k - 1)
        /\ \E r \in perDay : r["cii_temp"] # 0 /\ r["cii"] # r["cii_temp"]

(***************************************************************************)
(* Properties of concurrent jobs.                                          *)
(***************************************************************************)
\* the rows of a telemetry table that belong to other vessels
OthersIn(bag, vessel_id) ==
    [t \in {x \in BagToSet(bag) : x["vessel_id"] # vessel_id} |-> bag[t]]

\* the rows of the per-day table that belong to other vessels
OthersOf(table, vessel_id) == {r \in table : r["vessel_id"] # vessel_id}

\* C14: under any interleaving of jobs, a step of the job of vessel v leaves every row
\* of another vessel in the raw, cleaned and per-day tables as it was
C14_OtherVesselsUntouched ==
    [][\A j \in UploadIds :
          (StepOf(j) /\ pc[j] # "idle") =>
             /\ OthersIn(raw', task[j].vessel_id) = OthersIn(raw, task[j].vessel_id)
             /\ OthersIn(std', task[j].vessel_id) = OthersIn(std, task[j].vessel_id)
             /\ OthersOf(perDay', task[j].vessel_id)
                   = OthersOf(perDay, task[j].vessel_id)]_vars

\* jobs of two vessels overlap: one is done with computed CII on a date the other has
\* also stored and is still computing on
C14_Witness ==
    \E j, k \in UploadIds :
        /\ task[j].vessel_id # task[k].vessel_id
        /\ IsDone(j) /\ pc[k] = "cii"
        /\ \E r, q \in perDay :
              /\ Covers(j, r) /\ Covers(k, q) /\ r["date"] = q["date"]
              /\ r["cii_temp"] # 0 /\ q["cii_temp"] # 0 /\ q["cii"] = 0

\* C15: no mutual exclusion: the delete and the insert of a job's upsert can each take
\* effect whatever the other jobs are doing, also while another job of the same vessel
\* stands between its own delete and insert
C15_NoMutualExclusion ==
    \A j \in UploadIds :
        /\ pc[j] = "delete" => ENABLED Delete(j)
        /\ pc[j] = "insert" => ENABLED Insert(j)

\* the per-day table when the two uploads run one after the other, in either order
SerialOutcomes ==
    {PerDayAfter(PerDayAfter({}, task[1], JobClean(1)), task[2], JobClean(2)),
     PerDayAfter(PerDayAfter({}, task[2], JobClean(2)), task[1], JobClean(1))}

\* two jobs of a vessel whose batches share a date have both returned, no operation
\* failed for an outside reason, one job failed on the key of the other after its own
\* delete, and the per-day table is the outcome of neither serial order
C15_Witness ==
    /\ faults = 0 /\ Len(uploads) = 2
    /\ pc[1] = "returned" /\ pc[2] = "returned"
    /\ HasRead(1) /\ HasRead(2)
    /\ task[1].vessel_id = task[2].vessel_id
    /\ DailyDates(JobClean(1).df) \cap DailyDates(JobClean(2).df) # {}
    /\ \E j \in 1..2 : Persisted(j) = "failed"
    /\ perDay \notin SerialOutcomes

(***************************************************************************)
(* Properties of the stored CII values.                                    *)
(***************************************************************************)
\* C16 as stated, for runs in which no operation has failed for an outside reason: in
\* every stored per-day row cii_temp and cii are defined and not negative, and
\* cii_temp is 0 when speed_water is undefined or not positive
C16_CiiDefinedAndNonNegative ==
    faults = 0 =>
       \A r \in perDay :
          /\ r["cii_temp"] # NaN /\ r["cii"] # NaN
          /\ r["cii_temp"] >= 0 /\ r["cii"] >= 0
          /\ (r["speed_water"] = NaN \/ r["speed_water"] <= 0) => r["cii_temp"] = 0

(***************************************************************************)
(* Properties of the cleaning pipeline.                                    *)
(***************************************************************************)
\* the value is a number within the bounds (either may be left open with NaN)
Within(v, lo, hi) == IsNum(v) /\ (lo = NaN \/ v >= lo) /\ (hi = NaN \/ v <= hi)

\* the row satisfies the plausibility rule of a column, when the frame has the column
Plausible(frame, r, c) ==
    c \in frame.cols =>
       CASE c = "me_fuel_consumption_nmile" -> Within(r[c], 1, 249)
         [] c = "me_shaft_power" -> Within(r[c], 1, 7999)
         [] c = "speed_ground" -> Within(r[c], 3, NaN) /\ r[c] # 88888
         [] c = "wind_direction" -> r[c] # 88888
         [] c = "wind_speed" -> Within(r[c], NaN, 59)
         [] c = "me_fuel_consumption_kwh" -> Within(r[c], 0, NaN)

\* C17 as stated: every row data_preparation returns satisfies the operational filters
\* and, for each column the batch has, the plausibility filters, and none of its
\* fields holds a line break.  A cell is compared by the value the file gives it: the
\* cell 88888 of a column pandas holds as text is the sentinel 88888.
C17_ReturnedRowsPassAllFilters ==
    (Len(output) >= 1 /\ ~output[1].raised) =>
       \A i \in 1..Len(output[1].df.rows) :
          LET frame == output[1].df
              r == frame.rows[i]
          IN  /\ Within(r["me_rpm"], 35, 1999)
              /\ Within(r["speed_water"], 3, NaN) /\ r["speed_water"] # 88888
              /\ Within(r["slip_ratio"], -20, 100)
              /\ Within(r["draft"], 1, NaN)
              /\ \A c \in PlausibilityCols : Plausible(frame, r, c)
              /\ \A c \in frame.cols : r[c] # STRNL

\* C18 as stated: data_preparation applied to its own output returns exactly the rows
\* of that output, with draft, slip_ratio and ship_nmile unchanged
C18_PreparationIdempotent ==
    Len(output) = 2 =>
       /\ ~output[2].raised
       /\ output[2].df.rows = output[1].df.rows

(***************************************************************************)
(* Properties of the CII rating.                                           *)
(***************************************************************************)
Ascending(d) == \A i \in 1..(Len(d) - 1) : d[i] < d[i + 1]

RequiredOfInput == get_required_cii(input.year, input.ship_type_code, input.dwt, input.gt)

\* C19: for every ship-type code and deadweight get_dd_vectors returns
\* d1 < d2 < d3 < d4, and whenever the required CII is positive get_cii_boundaries
\* returns superior < lower < upper < inferior
C19_BoundariesAscending ==
    /\ Ascending(get_dd_vectors(input.ship_type_code, input.dwt))
    /\ (Len(output) = 2 /\ RequiredOfInput > 0) =>
          /\ output[2].superior < output[2].lower
          /\ output[2].lower < output[2].upper
          /\ output[2].upper < output[2].inferior

\* boundaries are returned for a category with a tonnage branch and a positive
\* required CII in a year with a reduction factor
C19_Witness ==
    /\ Len(output) = 2 /\ RequiredOfInput > 0
    /\ input.ship_type_code = "I002" /\ input.dwt >= 65000 /\ input.year = 2027
    /\ output[2].superior < output[2].lower
    /\ output[2].upper < output[2].inferior

\* C20: with a positive required CII the rating is the letter of the first boundary,
\* in ascending order, the observed value is not above, and E above all of them;
\* half the required value rates A, twice the required value rates E, and for I001
\* with capacity 279000 in 2023 1.1 times the required value rates D
C20_RatingIsFirstBoundary ==
    (Len(output) >= 1 /\ RequiredOfInput > 0) =>
       LET x == input.cii
           b == get_cii_boundaries(input.year, input.ship_type_code, input.dwt, input.gt)
           rating == output[1]
       IN  /\ rating = "A" <=> x <= b.superior
           /\ rating = "B" <=> (b.superior < x /\ x <= b.lower)
           /\ rating = "C" <=> (b.lower < x /\ x <= b.upper)
           /\ rating = "D" <=> (b.upper < x /\ x <= b.inferior)
           /\ rating = "E" <=> x > b.inferior
           /\ x = RequiredOfInput * 50 => rating = "A"
           /\ x = RequiredOfInput * 200 => rating = "E"
           /\ (/\ input.ship_type_code = "I001" /\ input.dwt >= 279000
               /\ input.year = 2023 /\ x = RequiredOfInput * 110) => rating = "D"

\* a value exactly on the lower boundary of a category is rated B
C20_Witness ==
    /\ Len(output) >= 1 /\ RequiredOfInput > 0
    /\ input.ship_type_code = "I010"
    /\ input.cii = RequiredOfInput * get_dd_vectors(input.ship_type_code, input.dwt)[2]
    /\ output[1] = "B"

\* the capacity, a and c selected for the input
SelectedOfInput == _get_capacity_a_c(input.ship_type_code, input.dwt, input.gt)

\* C21: for a ship-type code outside the category set, or a selected capacity of 0,
\* get_required_cii returns 0 and get_cii_rating returns "N/A", whatever the observed
\* value, year, dwt and gt
C21_EdgeCasesGiveSentinel ==
    (\/ input.ship_type_code \notin ShipTypeCodes \ {"X999"}
     \/ SelectedOfInput.capacity = 0) =>
       /\ RequiredOfInput = 0
       /\ Len(output) >= 1 => output[1] = "N/A"

\* a known category with deadweight 0 has been rated, for a positive observed value
C21_Witness ==
    /\ Len(output) >= 1 /\ output[1] = "N/A"
    /\ input.ship_type_code = "I003" /\ input.dwt = 0 /\ input.cii > 0

\* C22: a year outside 2019..2030 gets z = 0: the required CII, the boundaries and the
\* rating are those of 2019, and a vessel rateable in 2019 is rated
C22_YearOutsideTableIsUnreduced ==
    input.year \notin 2019..2030 =>
       /\ _get_z_percentage(input.year) = 0
       /\ RequiredOfInput
             = get_required_cii(2019, input.ship_type_code, input.dwt, input.gt)
       /\ Len(output) >= 1 =>
             /\ output[1] = get_cii_rating(input.cii, 2019, input.ship_type_code,
                                           input.dwt, input.gt)
             /\ get_required_cii(2019, input.ship_type_code, input.dwt, input.gt) > 0
                   => output[1] # "N/A"
       /\ Len(output) = 2 =>
             output[2] = get_cii_boundaries(2019, input.ship_type_code, input.dwt, input.gt)

\* a vessel is rated C for a year after the table, with its boundaries returned
C22_Witness ==
    /\ Len(output) = 2 /\ input.year = 2031 /\ RequiredOfInput > 0
    /\ output[1] = "C"
    /\ output[2].lower < input.cii /\ input.cii <= output[2].upper

(***************************************************************************)
(* Properties of the job record against the pipeline.                      *)
(***************************************************************************)
\* the steps of a job from reading its file to its last analytical-store statement
WorkPcs == {"read"} \cup DuckPcs

\* the step changes the analytical store
DuckWrite == raw' # raw \/ std' # std \/ perDay' # perDay

\* C25: while a job reads its file or holds the analytical store its persisted status is
\* processing, so a step of a job that changes the analytical store is taken under
\* that status, never under pending; and the status done is persisted only by the step
\* after the store connection is released, with no store change in that step
C25_StatusBracketsPipelineWork ==
    [][\A j \in UploadIds :
          /\ pc'[j] \in WorkPcs => Persisted(j)' = "processing"
          /\ (StepOf(j) /\ DuckWrite) => (pc[j] \in DuckPcs /\ Persisted(j) = "processing")
          /\ BecomesDone(j) => (pc[j] = "finish" /\ ~DuckWrite)]_vars

\* a job is done after it wrote per-day rows, while another job is at its first store
\* statement under the status processing
C25_Witness ==
    \E j, k \in UploadIds :
        /\ IsDone(j) /\ \E r \in perDay : Covers(j, r)
        /\ pc[k] = "raw" /\ Persisted(k) = "processing"

\* the dates of the rows of the file job j read
RawDates(j) ==
    IF "date" \notin JobDf(j).cols THEN {}
    ELSE {JobDf(j).rows[i]["date"] : i \in 1..Len(JobDf(j).rows)} \ {NaN, STR, STRNL}

Unset(v) == v = NaN

\* C26: in every persisted state of a record: pending or processing has completed_at
\* and error_message unset; done has completed_at set, error_message unset and the
\* date range from the first to the last date of the raw input; failed has completed_at
\* set, error_message set with at most 1000 characters and the date range unset
C26_FieldsAgreeWithStatus ==
    \A id \in committed :
       LET u == uploads[id]
       IN  /\ u.status \in {"pending", "processing"} =>
                Unset(u.completed_at) /\ Unset(u.error_message)
           /\ u.status = "done" =>
                /\ ~Unset(u.completed_at) /\ Unset(u.error_message)
                /\ HasRead(id)
                /\ \A d \in RawDates(id) : u.date_start <= d /\ d <= u.date_end
                /\ RawDates(id) # {} => {u.date_start, u.date_end} \subseteq RawDates(id)
                /\ RawDates(id) = {} => Unset(u.date_start) /\ Unset(u.date_end)
           /\ u.status = "failed" =>
                /\ ~Unset(u.completed_at)
                /\ ~Unset(u.error_message) /\ u.error_message <= 1000
                /\ Unset(u.date_start) /\ Unset(u.date_end)

\* one record is done with a range of several dates, another is failed with a message
\* cut to 1000 characters
C26_Witness ==
    \E j, k \in committed :
        /\ uploads[j].status = "done" /\ uploads[j].date_start < uploads[j].date_end
        /\ uploads[k].status = "failed" /\ uploads[k].error_message = 1000

\* the step persists failed for job j
BecomesFailed(j) == Persisted(j) # "failed" /\ Persisted(j)' = "failed"

\* C27 as stated, with one upload at a time: when a job ends in failed, the per-day
\* table is the table the jobs before it left, as if the job had not run
C27_FailedJobLeavesPerDay ==
    [][\A k \in UploadIds : BecomesFailed(k) => perDay' = Replay(k - 1)]_vars

(***************************************************************************)
(* Properties of the hand-over from the request to the job.                *)
(***************************************************************************)
\* C28 as stated: no two accepted uploads have the same saved file path, so when a job
\* reads its file no other upload has been saved under that path
C28_JobReadsItsOwnUpload ==
    [][\A j \in UploadIds :
          (pc[j] = "read" /\ StepOf(j)) =>
             \A k \in DOMAIN uploads \ {j} : uploads[k].file_path # task[j].file_path]_vars


\* C29 as stated, for the runs in which no store operation fails for an outside
\* reason: the record of an accepted upload is committed by the time its job looks it
\* up, so process_upload never returns with the job still pending
C29_AcceptedJobLeavesPending ==
    \A j \in UploadIds :
        (pc[j] = "returned" /\ faults = 0) => Persisted(j) # "pending"


(***************************************************************************)
(* Properties of the CII report.                                           *)
(***************************************************************************)
\* the map the report call of this step resolved the ship type with: the cache the
\* call leaves, or the empty map when it leaves none
MapOfCall == _ship_type_cache'.map

\* the rows of the report are those rated with the I001 curve and multipliers
RatedAsI001(result) ==
    \A i \in DOMAIN input.rows :
        LET row == input.rows[i]
        IN  (row.cii # NaN /\ row.cii > 0) =>
              /\ result[i].rating = get_cii_rating(row.cii, row.year, "I001",
                                        input.vessel.dead_weight, input.vessel.gross_tone)
              /\ result[i].bounds = get_cii_boundaries(row.year, "I001",
                                        input.vessel.dead_weight, input.vessel.gross_tone)
              /\ input.vessel.dead_weight > 0 => result[i].rating # "N/A"

\* C30: a report for a vessel whose ship-type id is absent from the ship-type map of
\* the call (the empty map when the meta service is unreachable and nothing is cached)
\* rates every row with a positive cii as a ship of code I001, and for a vessel with a
\* positive deadweight with a letter, not "N/A"
C30_AbsentShipTypeRatedAsI001 ==
    [][(Len(output') = Len(output) + 1
           /\ input.vessel.ship_type \notin DOMAIN MapOfCall) =>
          RatedAsI001(output'[Len(output')])]_vars

\* with the meta service unreachable, a vessel of a listed type other than I001 got a
\* letter that is not the one of its own type
C30_Witness ==
    /\ ~_ship_type_cache.cached
    /\ Len(output) >= 1
    /\ input.vessel.ship_type \in DOMAIN input.ship_types
    /\ \E i \in DOMAIN input.rows :
          /\ output[1][i].rating \in {"A", "B", "C", "D", "E"}
          /\ output[1][i].rating #
                get_cii_rating(input.rows[i].cii, input.rows[i].year,
                               input.ship_types[input.vessel.ship_type],
                               input.vessel.dead_weight, input.vessel.gross_tone)


(***************************************************************************)
(* Properties of the identity service.                                     *)
(***************************************************************************)
\* the step is a request op, answered with status
Answered(op, status) == output' # output /\ output'[1].op = op /\ output'[1].status = status

\* C23 as stated: a delete keeps the record and sets disabled; a login that is accepted
\* is never that of a disabled user; a GET of a disabled user's id is answered 404
C23_SoftDeletedUserShutOut ==
    [][/\ Answered("delete", 200) =>
             /\ Len(users') = Len(users)
             /\ users' = [users EXCEPT ![output'[1].user_id].disabled = TRUE]
       /\ Answered("login", 200) => ~users[output'[1].user_id].disabled
       /\ \A id \in DOMAIN users :
             (users[id].disabled /\ output' # output /\ output'[1].op = "get"
                 /\ output'[1].user_id = id) => output'[1].status = 404]_vars


(***************************************************************************)
(* Properties of the vessel service.                                       *)
(***************************************************************************)
\* the step is an update of a stored vessel
UpdateStep == output' # output /\ output'[1].op = "update" /\ output'[1].status = 200

\* C24 as stated: an update replaces the equipment list, or the curve list, with the
\* one the request gives, and leaves the stored list as it is when the request omits it
C24_OmittedListsUnchanged ==
    [][UpdateStep =>
          LET id == output'[1].vessel_id
              data == output'[1].body
          IN  /\ vessels'[id].equipments =
                    IF "equipments" \in data.set THEN data.equipments
                    ELSE vessels[id].equipments
              /\ vessels'[id].curves =
                    IF "curves" \in data.set THEN data.curves ELSE vessels[id].curves]_vars

====
